---------------------------- MODULE Spec2Model ----------------------------
(***************************************************************************)
(* Model of the group webhook / movement / auto-message pipeline:          *)
(*   - the auto-message config store (group_auto_messages),                *)
(*   - the movement store (group_movements),                               *)
(*   - the webhook handler processGroupParticipantsUpdate,                 *)
(*   - the dispatchers sendWelcomeMessage / sendGoodbyeMessage.            *)
(*                                                                         *)
(* Conventions.  A JavaScript value that may be undefined/null, and an SQL *)
(* value that may be NULL, is a sequence of length 0 (absent) or 1.  A     *)
(* text is a sequence of tokens; a phone number or JID is a sequence of    *)
(* one-character strings.  Every await of the code is a separate action.   *)
(***************************************************************************)
EXTENDS Integers, Sequences, FiniteSets, TLC

VARIABLES
    configs,      \* table group_auto_messages: a set of rows
    nextId,       \* next generated id of group_auto_messages
    now,          \* wall clock, in seconds
    storeOps,     \* number of upsert/delete statements executed so far
    lastUpsert,   \* history: the last upsert statement, its row before and after
    lastDelete,   \* history: the delete call that ran last, if no upsert followed
    getCall,      \* the in-flight getAutoMessageConfig call of the API
    listCall,     \* the in-flight listMovements call of the API
    groupCalls,   \* invocations of the group controllers
    groupsCache,  \* the Redis entry groups:<instanceName>
    cacheStamp,   \* history: gateway changes done when the entry was fetched
    socket,       \* the Socket.io client: connection, emitted and queued events
    pgOps,        \* operations that borrow a connection of pgPool
    pgOthers,     \* connections held by other in-flight operations
    phoneCase,    \* one application of the phone functions to an input
    templateCase, \* one application of replaceVariables to a template
    sockClient,   \* the module state of socket/socketClient.ts and its relay
    movements,    \* table group_movements: rows in insertion order
    calls,        \* invocations of processGroupParticipantsUpdate
    dispatches    \* invocations of sendWelcomeMessage / sendGoodbyeMessage

vars == <<configs, nextId, now, storeOps, lastUpsert, lastDelete, getCall,
          listCall, groupCalls, groupsCache, cacheStamp, socket, pgOps,
          pgOthers,
          phoneCase, templateCase, sockClient,
          movements, calls, dispatches>>

storeVars == <<configs, nextId, storeOps, lastUpsert, lastDelete>>
pipeVars  == <<movements, calls, dispatches>>
groupVars == <<groupCalls, groupsCache, cacheStamp, socket>>
poolVars  == <<pgOps, pgOthers>>
pureVars  == <<phoneCase, templateCase, sockClient>>
apiVars   == <<listCall, groupVars, poolVars, pureVars>>

----------------------------------------------------------------------------
(* Bounds of the model.                                                    *)

MaxTime == 1        \* the clock stops at MaxTime seconds
MaxStoreOps == 2    \* upsert/delete statements of one run of SpecConfig
MaxCalls == 2       \* webhook invocations of one run of Spec
MaxEdits == 1       \* upsert/delete statements of one run of SpecEdit
MaxEditCalls == 1   \* webhook invocations of one run of SpecEdit
MaxDispatches == 2  \* add/remove entries accepted over all invocations
MaxDeleteOps == 3   \* delete/upsert statements of one run of SpecDelete

\* group controller requests in one behaviour
MaxGroupCalls == 2

\* group requests in one behaviour of SpecCache
MaxRaceCalls == 3

\* tracked operations on the connection pool in one behaviour
MaxPoolOps == 2

\* calls of emitGroupsUpdate in one behaviour of the socket client
MaxEvents == 3

----------------------------------------------------------------------------
(* Optional values.                                                        *)

Absent == <<>>
Some(v) == <<v>>
IsSome(o) == o # <<>>

\* a ?? b
Nullish(o, default) == IF o = <<>> THEN default ELSE o[1]

\* JavaScript truthiness of an optional string (an identifier) and of an
\* optional text (a sequence of tokens or characters, <<>> being "")
TruthyStr(o) == o # <<>> /\ o[1] # ""
TruthyText(o) == o # <<>> /\ o[1] # <<>>

\* a || null, for an identifier and for a text
StrOrNull(o) == IF TruthyStr(o) THEN o ELSE Absent
TextOrNull(o) == IF TruthyText(o) THEN o ELSE Absent

RECURSIVE Flatten(_)
Flatten(ss) == IF ss = <<>> THEN <<>> ELSE Head(ss) \o Flatten(Tail(ss))

----------------------------------------------------------------------------
(* Phone normalizer (utils/numberNormalizer).                              *)

Digits == {"0", "1", "2", "3", "4", "5", "6", "7", "8", "9"}

DefaultDDI == <<"5", "5">>

validDDDs ==
    { <<"1","1">>, <<"1","2">>, <<"1","3">>, <<"1","4">>, <<"1","5">>,
      <<"1","6">>, <<"1","7">>, <<"1","8">>, <<"1","9">>, <<"2","1">>,
      <<"2","2">>, <<"2","4">>, <<"2","7">>, <<"2","8">>, <<"3","1">>,
      <<"3","2">>, <<"3","3">>, <<"3","4">>, <<"3","5">>, <<"3","7">>,
      <<"3","8">>, <<"4","1">>, <<"4","2">>, <<"4","3">>, <<"4","4">>,
      <<"4","5">>, <<"4","6">>, <<"4","7">>, <<"4","8">>, <<"4","9">>,
      <<"5","1">>, <<"5","3">>, <<"5","4">>, <<"6","1">>, <<"6","2">>,
      <<"6","3">>, <<"6","4">>, <<"6","5">>, <<"6","6">>, <<"6","7">>,
      <<"6","8">>, <<"6","9">>, <<"7","1">>, <<"7","3">>, <<"7","4">>,
      <<"7","5">>, <<"7","7">>, <<"7","9">>, <<"8","1">>, <<"8","2">>,
      <<"8","3">>, <<"8","4">>, <<"8","5">>, <<"8","6">>, <<"8","7">>,
      <<"8","8">>, <<"8","9">>, <<"9","1">>, <<"9","2">>, <<"9","3">>,
      <<"9","4">>, <<"9","5">>, <<"9","6">>, <<"9","7">>, <<"9","8">>,
      <<"9","9">> }

\* s.substring(from) with from counted from 0
Substring(s, from) == SubSeq(s, from + 1, Len(s))

\* s.substring(from, to)
SubstringTo(s, from, to) ==
    SubSeq(s, from + 1, IF to < Len(s) THEN to ELSE Len(s))

StartsWith(s, p) == Len(s) >= Len(p) /\ SubSeq(s, 1, Len(p)) = p

\* value.replace(/\D/g, '')
removeNonNumeric(value) == SelectSeq(value, LAMBDA c : c \in Digits)

\* normalizePhone(phone, defaultDDI): Absent is null
normalizePhone(phone, defaultDDI) ==
    IF phone = <<>> THEN Absent
    ELSE
    LET digitsOnly == removeNonNumeric(phone)
        normalized == IF StartsWith(digitsOnly, <<"0">>)
                      THEN Substring(digitsOnly, 1) ELSE digitsOnly
    IN  IF Len(digitsOnly) = 0 THEN Absent
        ELSE IF StartsWith(normalized, <<"5", "5">>)
                /\ (Len(normalized) = 12 \/ Len(normalized) = 13)
             THEN Some(normalized)
        ELSE IF Len(normalized) = 10 \/ Len(normalized) = 11
             THEN Some(defaultDDI \o normalized)
        ELSE IF Len(normalized) = 12 \/ Len(normalized) = 13
             THEN IF SubstringTo(normalized, 0, 2) \in validDDDs
                  THEN Some(defaultDDI \o normalized)
                  ELSE Some(normalized)
        ELSE IF Len(normalized) > 13 THEN Some(normalized)
        ELSE IF Len(normalized) < 10 THEN Absent
        ELSE Some(defaultDDI \o normalized)

\* normalizePhoneList(phones): the non-null results, in order
RECURSIVE normalizePhoneList(_)
normalizePhoneList(phones) ==
    IF phones = <<>> THEN <<>>
    ELSE normalizePhone(Head(phones), DefaultDDI)
         \o normalizePhoneList(Tail(phones))

\* the length of the leading digit run of s
RECURSIVE DigitRun(_)
DigitRun(s) ==
    IF s # <<>> /\ Head(s) \in Digits THEN 1 + DigitRun(Tail(s)) ELSE 0

\* extractPhoneFromJid(jid): jid.match(/^(\d+)@/)
extractPhoneFromJid(jid) ==
    IF jid = <<>> THEN <<>>
    ELSE LET n == DigitRun(jid)
         IN  IF n >= 1 /\ n < Len(jid) /\ jid[n + 1] = "@"
             THEN SubSeq(jid, 1, n) ELSE jid

\* formatBrazilianPhone returning its argument
formatUnchanged(phone) == phone

\* formatBrazilianPhone(phone)
formatBrazilianPhone(phone) ==
    IF phone = <<>> THEN <<>>
    ELSE
    LET rawPhone == IF \E i \in 1..Len(phone) : phone[i] = "@"
                    THEN extractPhoneFromJid(phone) ELSE phone
        clean0 == removeNonNumeric(rawPhone)
        cleanPhone == IF StartsWith(clean0, <<"5", "5">>) /\ Len(clean0) > 10
                      THEN Substring(clean0, 2) ELSE clean0
        ddd == SubstringTo(cleanPhone, 0, 2)
        numberOnly == Substring(cleanPhone, 2)
    IN  IF Len(cleanPhone) < 10 THEN phone
        ELSE IF Len(numberOnly) = 9
             THEN <<"(">> \o ddd \o <<")">> \o SubstringTo(numberOnly, 0, 1)
                  \o <<" ">> \o SubstringTo(numberOnly, 1, 5) \o <<"-">>
                  \o Substring(numberOnly, 5)
        ELSE IF Len(numberOnly) = 8
             THEN <<"(">> \o ddd \o <<")">> \o <<"9", " ">>
                  \o SubstringTo(numberOnly, 0, 4) \o <<"-">>
                  \o Substring(numberOnly, 4)
        ELSE phone

----------------------------------------------------------------------------
(* Template engine (utils/variableReplacer).  A text is a sequence of      *)
(* pieces; " " is the whitespace piece, "$" the dollar sign, and a         *)
(* variable is spelled as "$" followed by its name.                        *)

DigitChar == <<"0", "1", "2", "3", "4", "5", "6", "7", "8", "9">>

\* String(n).padStart(2, '0') for 0 <= n < 100
Pad2(n) == <<DigitChar[(n \div 10) + 1], DigitChar[(n % 10) + 1]>>

\* getCurrentTime(): HH:mm of the clock (seconds since midnight)
getCurrentTime(t) ==
    Pad2((t \div 3600) % 24) \o <<":">> \o Pad2((t \div 60) % 60)

RECURSIVE TrimLeft(_)
TrimLeft(s) == IF s # <<>> /\ Head(s) = " " THEN TrimLeft(Tail(s)) ELSE s

RECURSIVE TrimRight(_)
TrimRight(s) ==
    IF s # <<>> /\ s[Len(s)] = " " THEN TrimRight(SubSeq(s, 1, Len(s) - 1))
    ELSE s

\* name.trim()
Trim(s) == TrimLeft(TrimRight(s))

\* the first part of s.split(/\s+/), for a trimmed s
RECURSIVE FirstPart(_)
FirstPart(s) ==
    IF s = <<>> \/ Head(s) = " " THEN <<>>
    ELSE <<Head(s)>> \o FirstPart(Tail(s))

\* parts.slice(1).join(' ') of s.split(/\s+/), for a trimmed s
RECURSIVE JoinParts(_)
JoinParts(s) ==
    IF s = <<>> THEN <<>>
    ELSE IF Head(s) = " " THEN <<" ">> \o JoinParts(TrimLeft(s))
    ELSE <<Head(s)>> \o JoinParts(Tail(s))

getFirstName(fullName) ==
    IF Trim(fullName) = <<>> THEN <<>> ELSE FirstPart(Trim(fullName))

getLastName(fullName) ==
    IF Trim(fullName) = <<>> THEN <<>>
    ELSE LET t == Trim(fullName)
             rest == SubSeq(t, Len(FirstPart(t)) + 1, Len(t))
         IN  JoinParts(TrimLeft(rest))

defaultName == <<"Cliente">>

\* the replacement string of String.prototype.replace: $& stands for the
\* matched text and $$ for a dollar sign, everything else for itself
ExpandReplacement(value, matched) ==
    Flatten([i \in 1..Len(value) |->
                IF value[i] = "$&" THEN matched
                ELSE IF value[i] = "$$" THEN <<"$">>
                ELSE <<value[i]>>])

\* result.replace(new RegExp(variable, 'g'), value): every occurrence of the
\* variable's spelling from left to right, wherever it stands in the text
RECURSIVE ReplaceAll(_, _, _)
ReplaceAll(text, variable, value) ==
    IF text = <<>> THEN <<>>
    ELSE IF StartsWith(text, variable)
    THEN ExpandReplacement(value, variable)
         \o ReplaceAll(SubSeq(text, Len(variable) + 1, Len(text)),
                       variable, value)
    ELSE <<Head(text)>> \o ReplaceAll(Tail(text), variable, value)

\* the entries of `variables`, in insertion order.  contact is
\* [phone, name (optional)], group is [id, name, description (optional)]
VariableTable(contact, group, t) ==
    LET contactName == IF IsSome(contact.name) /\ Trim(contact.name[1]) # <<>>
                       THEN Trim(contact.name[1]) ELSE defaultName
    IN  << << <<"$", "name">>, contactName>>,
           << <<"$", "firstName">>, getFirstName(contactName)>>,
           << <<"$", "lastName">>, getLastName(contactName)>>,
           << <<"$", "fullName">>, contactName>>,
           << <<"$", "formattedPhone">>, formatBrazilianPhone(contact.phone)>>,
           << <<"$", "originalPhone">>, contact.phone>>,
           << <<"$", "hora">>, getCurrentTime(t)>>,
           << <<"$", "groupName">>, IF TruthyText(group.name)
                           THEN group.name[1] ELSE <<"Grupo">> >>,
           << <<"$", "groupDescription">>, IF TruthyText(group.description)
                                  THEN group.description[1] ELSE <<>> >>,
           << <<"$", "groupId">>, <<group.id>> >> >>

RECURSIVE ReplaceEach(_, _)
ReplaceEach(text, table) ==
    IF table = <<>> THEN text
    ELSE ReplaceEach(ReplaceAll(text, Head(table)[1], Head(table)[2]),
                     Tail(table))

\* replaceVariables(text, contact, group) at clock t
replaceVariables(text, contact, group, t) ==
    IF text = <<>> THEN text
    ELSE ReplaceEach(text, VariableTable(contact, group, t))

----------------------------------------------------------------------------
(* Auto-message config store (services/autoMessageService).                *)

Users == {"u1", "u2"}
GroupJid == "g1@g.us"

T_welcome == <<"Oi", " ", "$", "firstName", " ", "em", " ", "$", "groupName">>
T_goodbye == <<"Tchau", " ", "$", "name">>
T_other   == <<"Ola", " ", "$", "originalPhone">>

\* UpsertValues with `data.welcome_message ?? ''` for `|| null`
UpsertValuesEmptyMessage(data) ==
    [ user_id               |-> data.user_id,
      group_id              |-> StrOrNull(data.group_id),
      welcome_enabled       |-> Some(Nullish(data.welcome_enabled, FALSE)),
      welcome_message       |-> Some(Nullish(data.welcome_message, <<>>)),
      welcome_delay_seconds |-> Some(Nullish(data.welcome_delay_seconds, 0)),
      goodbye_enabled       |-> Some(Nullish(data.goodbye_enabled, FALSE)),
      goodbye_message       |-> TextOrNull(data.goodbye_message),
      goodbye_delay_seconds |-> Some(Nullish(data.goodbye_delay_seconds, 0)) ]

\* The `values` array of upsertAutoMessageConfig: the SQL parameters
\* $1..$8, each NULL (Absent) or a value.
UpsertValues(data) ==
    [ user_id               |-> data.user_id,
      group_id              |-> StrOrNull(data.group_id),
      welcome_enabled       |-> Some(Nullish(data.welcome_enabled, FALSE)),
      welcome_message       |-> TextOrNull(data.welcome_message),
      welcome_delay_seconds |-> Some(Nullish(data.welcome_delay_seconds, 0)),
      goodbye_enabled       |-> Some(Nullish(data.goodbye_enabled, FALSE)),
      goodbye_message       |-> TextOrNull(data.goodbye_message),
      goodbye_delay_seconds |-> Some(Nullish(data.goodbye_delay_seconds, 0)) ]

\* The conflict target (user_id, group_id) of the table's unique
\* constraint: the rows that an insert of `values` conflicts with.  The
\* global key (group_id NULL) counts as a key value.
ConflictRows(store, values) ==
    { r \in store : r.user_id = values.user_id
                    /\ r.group_id = values.group_id }

\* COALESCE(EXCLUDED.col, group_auto_messages.col) for a nullable column
\* and for a NOT NULL column
CoalesceNullable(excluded, stored) ==
    IF excluded # Absent THEN excluded ELSE stored
Coalesce(excluded, stored) ==
    IF excluded # Absent THEN excluded[1] ELSE stored

\* INSERT ... VALUES ($1..$8): the row inserted with generated id and
\* timestamps
InsertedRow(values, id, ts) ==
    [ id                    |-> id,
      user_id               |-> values.user_id,
      group_id              |-> values.group_id,
      welcome_enabled       |-> values.welcome_enabled[1],
      welcome_message       |-> values.welcome_message,
      welcome_delay_seconds |-> values.welcome_delay_seconds[1],
      goodbye_enabled       |-> values.goodbye_enabled[1],
      goodbye_message       |-> values.goodbye_message,
      goodbye_delay_seconds |-> values.goodbye_delay_seconds[1],
      created_at            |-> ts,
      updated_at            |-> ts ]

\* ON CONFLICT ... DO UPDATE SET ...: the stored row r after the update
UpdatedRow(r, values, ts) ==
    [ r EXCEPT
      !.welcome_enabled = Coalesce(values.welcome_enabled, r.welcome_enabled),
      !.welcome_message =
          CoalesceNullable(values.welcome_message, r.welcome_message),
      !.welcome_delay_seconds =
          Coalesce(values.welcome_delay_seconds, r.welcome_delay_seconds),
      !.goodbye_enabled = Coalesce(values.goodbye_enabled, r.goodbye_enabled),
      !.goodbye_message =
          CoalesceNullable(values.goodbye_message, r.goodbye_message),
      !.goodbye_delay_seconds =
          Coalesce(values.goodbye_delay_seconds, r.goodbye_delay_seconds),
      !.updated_at = ts ]

\* UpsertStatement without its ON CONFLICT clause
UpsertStatementInsertOnly(store, values, id, ts) ==
    store \cup {InsertedRow(values, id, ts)}

\* The statement INSERT ... ON CONFLICT (user_id, group_id) DO UPDATE:
\* the table after it
UpsertStatement(store, values, id, ts) ==
    LET conflict == ConflictRows(store, values)
    IN  IF conflict = {}
        THEN store \cup {InsertedRow(values, id, ts)}
        ELSE (store \ conflict)
             \cup {UpdatedRow(r, values, ts) : r \in conflict}

\* DeleteStatement without the owner in its WHERE clause
DeleteStatementById(store, id, user_id) == { r \in store : r.id # id }

\* DELETE FROM group_auto_messages WHERE id = $1 AND user_id = $2
DeleteStatement(store, id, user_id) ==
    { r \in store : ~(r.id = id /\ r.user_id = user_id) }

\* SELECT * ... WHERE user_id = $1 AND group_id = $2 LIMIT 1: the possible
\* values of result.rows
GroupQuery(store, user_id, group_id) ==
    LET match == { r \in store : r.user_id = user_id
                                 /\ r.group_id = Some(group_id) }
    IN  IF match = {} THEN {<<>>} ELSE { <<r>> : r \in match }

\* SELECT * ... WHERE user_id = $1 AND group_id IS NULL LIMIT 1
GlobalQuery(store, user_id) ==
    LET match == { r \in store : r.user_id = user_id /\ r.group_id = Absent }
    IN  IF match = {} THEN {<<>>} ELSE { <<r>> : r \in match }

\* WelcomeConfig with the group row taken whenever it exists
WelcomeConfigGroupWins(groupRows, globalRows) ==
    IF groupRows # <<>>
    THEN (IF groupRows[1].welcome_enabled THEN groupRows ELSE Absent)
    ELSE IF globalRows # <<>> /\ globalRows[1].welcome_enabled THEN globalRows
    ELSE Absent

\* groupConfig?.welcome_enabled ? groupConfig
\*     : (globalConfig?.welcome_enabled ? globalConfig : null)
\* for rows[0] of the two results; Absent is null
WelcomeConfig(groupRows, globalRows) ==
    IF groupRows # <<>> /\ groupRows[1].welcome_enabled THEN groupRows
    ELSE IF globalRows # <<>> /\ globalRows[1].welcome_enabled THEN globalRows
    ELSE Absent

\* GoodbyeConfig with the group row taken only when it also has a template
GoodbyeConfigByTemplate(groupRows, globalRows) ==
    IF groupRows # <<>> /\ groupRows[1].goodbye_enabled
       /\ TruthyText(groupRows[1].goodbye_message) THEN groupRows
    ELSE IF globalRows # <<>> /\ globalRows[1].goodbye_enabled THEN globalRows
    ELSE Absent

GoodbyeConfig(groupRows, globalRows) ==
    IF groupRows # <<>> /\ groupRows[1].goodbye_enabled THEN groupRows
    ELSE IF globalRows # <<>> /\ globalRows[1].goodbye_enabled THEN globalRows
    ELSE Absent

\* the value getAutoMessageConfig returns
EffectiveConfig(groupRows, globalRows) ==
    [ welcome |-> WelcomeConfig(groupRows, globalRows),
      goodbye |-> GoodbyeConfig(groupRows, globalRows) ]

----------------------------------------------------------------------------
(* Requests to the config API.                                             *)

NoFields ==
    [ welcome_enabled |-> Absent, welcome_message |-> Absent,
      welcome_delay_seconds |-> Absent, goodbye_enabled |-> Absent,
      goodbye_message |-> Absent, goodbye_delay_seconds |-> Absent ]

\* request bodies of POST /auto-messages, without group_id
UpsertBodies ==
    { NoFields,
      [NoFields EXCEPT !.welcome_enabled = Some(TRUE),
                       !.welcome_message = Some(T_welcome),
                       !.welcome_delay_seconds = Some(1)],
      [NoFields EXCEPT !.goodbye_message = Some(T_goodbye)],
      [NoFields EXCEPT !.goodbye_enabled = Some(TRUE),
                       !.goodbye_message = Some(T_other),
                       !.goodbye_delay_seconds = Some(1)],
      [NoFields EXCEPT !.welcome_enabled = Some(FALSE)],
      [NoFields EXCEPT !.welcome_enabled = Some(TRUE),
                       !.welcome_message = Some(<<>>)] }

GroupIdInputs == {Absent, Some(""), Some(GroupJid)}

\* the CreateAutoMessageData the controller builds from (user, body)
UpsertData(user_id, group_id, body) ==
    [ user_id               |-> user_id,
      group_id              |-> group_id,
      welcome_enabled       |-> body.welcome_enabled,
      welcome_message       |-> body.welcome_message,
      welcome_delay_seconds |-> body.welcome_delay_seconds,
      goodbye_enabled       |-> body.goodbye_enabled,
      goodbye_message       |-> body.goodbye_message,
      goodbye_delay_seconds |-> body.goodbye_delay_seconds ]

NoUpsert == [ data |-> Absent, before |-> Absent, after |-> Absent, at |-> 0 ]

IdleList == [ pc |-> "idle", filters |-> <<>>, total |-> 0,
              countedOn |-> <<>>, listedOn |-> <<>>, result |-> <<>> ]

\* no group request yet, no cache entry, the socket not connected
InitGroups ==
    /\ groupCalls = <<>>
    /\ groupsCache = <<>>
    /\ cacheStamp = 0
    /\ socket = [ connected |-> FALSE, emitted |-> <<>>, pending |-> <<>> ]
    /\ pgOps = <<>>
    /\ pgOthers = 0

\* no function application under examination
InitPure ==
    /\ phoneCase = <<>>
    /\ templateCase = <<>>
    /\ sockClient = <<>>

NoDelete == [ called |-> FALSE, id |-> 0, user_id |-> "", before |-> {},
              result |-> FALSE, repeats |-> FALSE ]

IdleGet == [ pc |-> "idle", user_id |-> "u1", group_id |-> GroupJid,
             groupRows |-> <<>>, globalRows |-> <<>>,
             result |-> Absent, failed |-> FALSE ]

\* upsertAutoMessageConfig(data): one statement
Upsert(data, limit) ==
    /\ storeOps < limit
    /\ LET values == UpsertValues(data)
           conflict == ConflictRows(configs, values)
           after == UpsertStatement(configs, values, nextId, now)
       IN  /\ configs' = after
           /\ nextId' = IF Cardinality(after) > Cardinality(configs)
                        THEN nextId + 1 ELSE nextId
           /\ lastUpsert' =
                [ data   |-> Some(data),
                  before |-> IF conflict = {} THEN Absent
                             ELSE Some(CHOOSE r \in conflict : TRUE),
                  after  |-> Some(CHOOSE r \in after : r \notin configs
                                                       \/ r \in conflict),
                  at     |-> now ]
    /\ lastDelete' = NoDelete
    /\ storeOps' = storeOps + 1

\* deleteAutoMessageConfig(id, user_id): one statement; the call returns
\* (result.rowCount ?? 0) > 0
Delete(id, user_id, limit) ==
    /\ storeOps < limit
    /\ configs' = DeleteStatement(configs, id, user_id)
    /\ lastDelete' =
          [ called  |-> TRUE, id |-> id, user_id |-> user_id,
            before  |-> configs,
            result  |-> Cardinality(configs)
                           - Cardinality(DeleteStatement(configs, id, user_id))
                        > 0,
            repeats |-> /\ lastDelete.called /\ lastDelete.result
                        /\ lastDelete.id = id
                        /\ lastDelete.user_id = user_id ]
    /\ storeOps' = storeOps + 1
    /\ UNCHANGED <<nextId, lastUpsert>>

\* getAutoMessageConfig(user_id, group_id): pool connect
GetStart(user_id, group_id) ==
    /\ getCall.pc \in {"idle", "done"}
    /\ getCall' = [IdleGet EXCEPT !.pc = "groupQuery", !.user_id = user_id,
                                  !.group_id = group_id]

\* ... the first query returns
GetGroupQuery ==
    /\ getCall.pc = "groupQuery"
    /\ \/ \E rows \in GroupQuery(configs, getCall.user_id, getCall.group_id) :
             getCall' = [getCall EXCEPT !.pc = "globalQuery",
                                        !.groupRows = rows]
       \/ getCall' = [getCall EXCEPT !.pc = "done", !.failed = TRUE]

\* ... the second query returns, and the call with it
GetGlobalQuery ==
    /\ getCall.pc = "globalQuery"
    /\ \/ \E rows \in GlobalQuery(configs, getCall.user_id) :
             getCall' = [getCall EXCEPT
                           !.pc = "done", !.globalRows = rows,
                           !.result = Some(EffectiveConfig(getCall.groupRows, rows))]
       \/ getCall' = [getCall EXCEPT !.pc = "done", !.failed = TRUE]

Tick ==
    /\ now < MaxTime
    /\ now' = now + 1

InitStore ==
    /\ configs = {}
    /\ nextId = 1
    /\ now = 0
    /\ storeOps = 0
    /\ lastUpsert = NoUpsert
    /\ lastDelete = NoDelete
    /\ getCall = IdleGet
    /\ listCall = IdleList
    /\ InitGroups

InitConfig ==
    /\ InitStore
    /\ InitPure
    /\ movements = <<>>
    /\ calls = <<>>
    /\ dispatches = <<>>

NextConfig ==
    \/ \E u \in Users, g \in GroupIdInputs, b \in UpsertBodies :
          /\ Upsert(UpsertData(u, g, b), MaxStoreOps)
          /\ UNCHANGED <<now, getCall, pipeVars, apiVars>>
    \/ \E id \in 1..MaxStoreOps, u \in Users :
          /\ Delete(id, u, MaxStoreOps)
          /\ UNCHANGED <<now, getCall, pipeVars, apiVars>>
    \/ GetStart("u1", GroupJid) /\ UNCHANGED <<now, storeVars, pipeVars, apiVars>>
    \/ GetGroupQuery /\ UNCHANGED <<now, storeVars, pipeVars, apiVars>>
    \/ GetGlobalQuery /\ UNCHANGED <<now, storeVars, pipeVars, apiVars>>
    \/ Tick /\ UNCHANGED <<getCall, storeVars, pipeVars, apiVars>>

SpecConfig == InitConfig /\ [][NextConfig]_vars

----------------------------------------------------------------------------
(* Webhook events (POST /webhook/group-participants/:instanceName).        *)

ParticipantsUpdate == "group-participants.update"

\* JIDs of participants: a number that carries the country prefix and a
\* local number
JidA == <<"5","5","1","1","9","8","7","6","5","4","3","2","1","@","s">>
JidB == <<"2","1","9","8","7","6","5","4","3","2","1","@","s">>
JidAuthor == <<"5","5","1","1","9","0","0","0","0","0","0","0","1","@","s">>
\* a number written with the international call prefix 00, and a number
\* of seven digits
JidZeros ==
    <<"0","0","5","5","1","1","9","8","7","6","5","4","3","2","@","s">>
JidShort == <<"6","8","3","4","0","0","2","@","s">>

NoEntry == [ id |-> Absent, jid |-> Absent, pushName |-> Absent,
             name |-> Absent, action |-> Absent ]

E_add     == [NoEntry EXCEPT !.id = Some(JidA), !.action = Some("add"),
                             !.name = Some(<<"Maria", " ", "Silva">>)]
E_remove  == [NoEntry EXCEPT !.jid = Some(JidB), !.action = Some("remove")]
E_noId    == [NoEntry EXCEPT !.action = Some("add")]
E_promote == [NoEntry EXCEPT !.id = Some(JidA), !.action = Some("promote")]
E_noAction == [NoEntry EXCEPT !.id = Some(JidB)]
E_zeros == [NoEntry EXCEPT !.id = Some(JidZeros), !.action = Some("add")]
E_short == [NoEntry EXCEPT !.id = Some(JidShort), !.action = Some("remove")]

EventData(participants) ==
    [ id |-> Some(GroupJid), participants |-> participants,
      author |-> Some(JidAuthor), date_time |-> Absent ]

Event(data) == [ present |-> TRUE, event |-> Some(ParticipantsUpdate),
                 data |-> data ]

List(items) == Some([ isArray |-> TRUE, items |-> items ])

\* the request bodies the model posts
EventBodies ==
    { [ present |-> FALSE, event |-> Absent, data |-> Absent ],
      [ present |-> TRUE, event |-> Some("messages.upsert"),
        data |-> Some(EventData(List(<<E_add>>))) ],
      Event(Absent),
      Event(Some([EventData(List(<<E_add>>)) EXCEPT !.id = Absent])),
      Event(Some(EventData(Some([ isArray |-> FALSE, items |-> <<>> ])))),
      Event(Some(EventData(List(<<>>)))),
      Event(Some(EventData(List(<<E_add>>)))),
      Event(Some(EventData(List(<<E_add, E_remove>>)))),
      Event(Some(EventData(List(<<E_zeros, E_short>>)))),
      Event(Some(EventData(List(<<E_noId, E_promote, E_remove, E_noAction>>)))) }

\* the instance collection: getInstance(instanceName) of utils/instanceHelper
InstanceNames == {"inst1", "ghost"}

\* the requests the model posts: every body to the known instance, one
\* event to an unknown instance
Requests ==
    { <<"inst1", b>> : b \in EventBodies }
    \cup { <<"ghost", Event(Some(EventData(List(<<E_add>>))))>> }

Instances ==
    { [ _id |-> "i1", instanceName |-> "inst1", userId |-> "u1" ] }

\* The outcomes of `await getInstance(instanceName)`: the instance, null,
\* or an exception of the lookup.
GetInstanceOutcomes(instanceName) ==
    { [ kind |-> "ok", instance |-> Some(i) ] :
          i \in { x \in Instances : x.instanceName = instanceName } }
    \cup { [ kind |-> "ok", instance |-> Absent ],
           [ kind |-> "throw", instance |-> Absent ] }

\* The outcomes of GET /group/fetchGroupInfo: subject and description
GroupInfoOutcomes ==
    { [ kind |-> "ok", subject |-> Some(<<"Familia">>),
        description |-> Some(<<"Regras">>) ],
      [ kind |-> "throw", subject |-> Absent, description |-> Absent ] }

----------------------------------------------------------------------------
(* processGroupParticipantsUpdate (controllers/webhookController).         *)

NewCall(instanceName, body) ==
    [ instanceName |-> instanceName, body |-> body, pc |-> "start",
      idx |-> 0, instance |-> Absent, authorPhone |-> <<>>,
      groupName |-> Absent, groupDescription |-> Absent,
      pending |-> Absent, responses |-> <<>>, raised |-> FALSE,
      attempts |-> <<>>, lookup |-> "none", fetched |-> FALSE ]

\* res.status(200).json({ status: 'ok', message })
Respond200(call, message) ==
    [ call EXCEPT !.responses = Append(@, [ status |-> 200,
                                            message |-> message ]),
                  !.pc = "done" ]

\* HandlerCatch with the error handed to next(error), as the other
\* controllers do
HandlerCatchNext(call) ==
    [ call EXCEPT !.raised = TRUE, !.pc = "done" ]

\* the catch block of the handler
HandlerCatch(call) == Respond200(call, "Erro processado")

\* EventRecognized with every event type accepted
EventRecognizedAny(body) == TRUE

\* eventData.event && eventData.event === 'group-participants.update'
EventRecognized(body) ==
    TruthyStr(body.event) /\ body.event[1] = ParticipantsUpdate

\* data && data.id && data.participants && Array.isArray(data.participants)
\* (an empty array is truthy)
DataValid(data) ==
    /\ data # Absent
    /\ TruthyStr(data[1].id)
    /\ data[1].participants # Absent
    /\ data[1].participants[1].isArray

\* OnInstanceMissing with the handler going on without an instance
OnInstanceMissingProceed(call) ==
    [ call EXCEPT !.pc = "fetchGroupInfo", !.fetched = TRUE ]

\* if (!instance) { res.status(200).json(...); return; }
OnInstanceMissing(call) == Respond200(call, "Instancia nao encontrada")

\* participant.id || participant.jid
ParticipantJid(entry) ==
    IF TruthyText(entry.id) THEN entry.id
    ELSE IF TruthyText(entry.jid) THEN entry.jid ELSE Absent

\* participant.phoneNumber?.pushName || participant.name || undefined
ParticipantName(entry) ==
    IF TruthyText(entry.pushName) THEN entry.pushName
    ELSE IF TruthyText(entry.name) THEN entry.name ELSE Absent

\* the loop body runs past its two `continue`s for this entry
Processed(entry) ==
    /\ ParticipantJid(entry) # Absent
    /\ TruthyStr(entry.action)
    /\ entry.action[1] \in {"add", "remove"}

\* movementTypeOf with every action mapped to 'entered'
movementTypeAlwaysEntered(action) == "entered"

\* action === 'add' ? 'entered' : 'left'
movementTypeOf(action) == IF action = "add" THEN "entered" ELSE "left"

\* the dispatcher fired for an action
DispatcherOf(action) == IF action = "add" THEN "welcome" ELSE "goodbye"

Participants(body) == body.data[1].participants[1].items

\* the number of entries of a body that the loop processes
ProcessedCount(body) ==
    IF body.present /\ body.data # Absent /\ body.data[1].participants # Absent
    THEN Cardinality({ i \in 1..Len(Participants(body)) :
                         Processed(Participants(body)[i]) })
    ELSE 0

\* the argument of createMovement for entry i
CreateMovementData(call, i) ==
    LET entry == Participants(call.body)[i]
        data == call.body.data[1]
        participantPhone == extractPhoneFromJid(ParticipantJid(entry)[1])
        normalized == normalizePhone(participantPhone, DefaultDDI)
    IN  [ user_id       |-> call.instance[1].userId,
          instance_id   |-> call.instance[1]._id,
          group_id      |-> data.id[1],
          group_name    |-> call.groupName,
          contact_phone |-> IF TruthyText(normalized) THEN normalized[1]
                            ELSE participantPhone,
          contact_name  |-> ParticipantName(entry),
          movement_type |-> movementTypeOf(entry.action[1]),
          author_phone  |-> IF call.authorPhone # <<>>
                            THEN Some(call.authorPhone) ELSE Absent,
          timestamp     |-> Nullish(data.date_time, now) ]

\* the loop from entry `from` up to its next await (createMovement), or
\* to its end
RunLoop(call, from) ==
    LET items == Participants(call.body)
        next == { i \in from..Len(items) : Processed(items[i]) }
    IN  IF next = {}
        THEN [ call EXCEPT !.pc = "respond", !.idx = Len(items) + 1,
                           !.pending = Absent ]
        ELSE LET i == CHOOSE j \in next : \A k \in next : j <= k
             IN  [ call EXCEPT !.pc = "createMovement", !.idx = i,
                               !.pending = Some(CreateMovementData(call, i)) ]

\* createMovement(data): the row inserted into group_movements
MovementRow(data, id, src) ==
    LET phones == normalizePhoneList(<<data.contact_phone>>)
        authors == IF TruthyText(data.author_phone)
                   THEN normalizePhoneList(<<data.author_phone[1]>>)
                   ELSE <<>>
    IN  [ id            |-> id,
          user_id       |-> data.user_id,
          instance_id   |-> data.instance_id,
          group_id      |-> data.group_id,
          group_name    |-> TextOrNull(data.group_name),
          contact_phone |-> IF phones = <<>> THEN Absent ELSE Some(phones[1]),
          contact_name  |-> TextOrNull(data.contact_name),
          movement_type |-> data.movement_type,
          author_phone  |-> IF authors = <<>> THEN Absent
                            ELSE Some(authors[1]),
          timestamp     |-> data.timestamp,
          src           |-> src ]

\* InsertMovement under a uniqueness constraint on the event's columns
\* (ON CONFLICT DO NOTHING)
InsertMovementUnique(store, row) ==
    IF \E m \in 1..Len(store) :
          /\ store[m].group_id = row.group_id
          /\ store[m].contact_phone = row.contact_phone
          /\ store[m].movement_type = row.movement_type
          /\ store[m].timestamp = row.timestamp
    THEN store ELSE Append(store, row)

\* INSERT INTO group_movements (...) VALUES (...) RETURNING *
InsertMovement(store, row) == Append(store, row)

\* the catch around createMovement, with the error thrown on
OnPersistErrorAbort(call) == HandlerCatch(call)

\* the catch around createMovement: the error is logged
OnPersistError(call) == call

\* AckReady with the dispatchers awaited
AckReadyAwaitDispatch(c) ==
    \A d \in 1..Len(dispatches) :
        dispatches[d].call = c => dispatches[d].pc = "done"

\* After the loop nothing is awaited before res.status(200).json(...).
AckReady(c) == TRUE

\* a handler is running synchronous code: nothing else runs meanwhile
Busy == \E c \in 1..Len(calls) : calls[c].pc = "respond" /\ AckReady(c)

Reserved(cs) ==
    LET RECURSIVE Sum(_)
        Sum(i) == IF i = 0 THEN 0 ELSE ProcessedCount(cs[i].body) + Sum(i - 1)
    IN  Sum(Len(cs))

\* the request arrives: the handler runs up to `await getInstance`
Receive(instanceName, body, limit) ==
    /\ ~Busy
    /\ Len(calls) < limit
    /\ Reserved(calls) + ProcessedCount(body) <= MaxDispatches
    /\ LET call == NewCall(instanceName, body)
           data == body.data
       IN  calls' = Append(calls,
             IF ~body.present THEN HandlerCatch(call)
             ELSE IF ~EventRecognized(body)
                  THEN Respond200(call, "Evento nao processado")
             ELSE IF ~DataValid(data)
                  THEN Respond200(call, "Dados invalidos")
             ELSE [ call EXCEPT
                      !.pc = "getInstance",
                      !.lookup = "pending",
                      !.authorPhone =
                          extractPhoneFromJid(Nullish(data[1].author, <<>>)) ])
    /\ UNCHANGED <<movements, dispatches>>

\* `await getInstance(instanceName)` returns
GetInstanceDone(c) ==
    /\ ~Busy
    /\ calls[c].pc = "getInstance"
    /\ \E o \in GetInstanceOutcomes(calls[c].instanceName) :
          calls' = [calls EXCEPT ![c] =
              IF o.kind = "throw"
              THEN HandlerCatch([ @ EXCEPT !.lookup = "threw" ])
              ELSE IF o.instance = Absent
                   THEN OnInstanceMissing([ @ EXCEPT !.lookup = "missing" ])
              ELSE [ @ EXCEPT !.pc = "fetchGroupInfo",
                              !.lookup = "found",
                              !.fetched = TRUE,
                              !.instance = o.instance ]]
    /\ UNCHANGED <<movements, dispatches>>

\* `await requestEvolutionAPI('GET', '/group/fetchGroupInfo/...')` returns
\* or throws; the loop starts
FetchGroupInfoDone(c) ==
    /\ ~Busy
    /\ calls[c].pc = "fetchGroupInfo"
    /\ \E o \in GroupInfoOutcomes :
          calls' = [calls EXCEPT ![c] =
              RunLoop([ @ EXCEPT !.groupName = o.subject,
                                 !.groupDescription = o.description ], 1)]
    /\ UNCHANGED <<movements, dispatches>>

\* sendWelcomeMessage / sendGoodbyeMessage called for entry i: the call
\* runs up to `await getInstance`
NewDispatch(kind, c, i) ==
    LET call == calls[c]
        entry == Participants(call.body)[i]
    IN  [ kind |-> kind, call |-> c, idx |-> i,
          instanceName |-> call.instanceName,
          groupId |-> call.body.data[1].id[1],
          contactJid |-> ParticipantJid(entry)[1],
          contactName |-> ParticipantName(entry),
          groupName |-> call.groupName,
          groupDescription |-> call.groupDescription,
          pc |-> "getInstance", instance |-> Absent, groupRows |-> <<>>,
          config |-> Absent, message |-> Absent,
          delay |-> 0, delayFrom |-> 0,
          sends |-> <<>>, raised |-> FALSE, outcome |-> "running" ]

\* `await createMovement(...)` returns or throws; the dispatcher of the
\* entry is fired and the loop goes on
CreateMovementDone(c) ==
    /\ ~Busy
    /\ calls[c].pc = "createMovement"
    /\ \E ok \in BOOLEAN :
          LET call == calls[c]
              i == call.idx
              logged == [ call EXCEPT
                            !.attempts = Append(@, [ idx |-> i, ok |-> ok ]) ]
              after == IF ok THEN logged ELSE OnPersistError(logged)
              action == Participants(call.body)[i].action[1]
          IN  /\ movements' =
                    IF ok
                    THEN InsertMovement(movements,
                                MovementRow(call.pending[1],
                                            Len(movements) + 1, <<c, i>>))
                    ELSE movements
              /\ IF after.pc = "createMovement"
                 THEN /\ dispatches' =
                            Append(dispatches,
                                   NewDispatch(DispatcherOf(action), c, i))
                      /\ calls' = [calls EXCEPT ![c] = RunLoop(after, i + 1)]
                 ELSE /\ dispatches' = dispatches
                      /\ calls' = [calls EXCEPT ![c] = after]

\* the end of the loop: res.status(200).json(...)
Respond(c) ==
    /\ calls[c].pc = "respond"
    /\ AckReady(c)
    /\ calls' = [calls EXCEPT ![c] = Respond200(@, "Webhook processado")]
    /\ UNCHANGED <<movements, dispatches>>

----------------------------------------------------------------------------
(* sendWelcomeMessage / sendGoodbyeMessage (services/autoMessageService).  *)

\* DispatchCatch with the error thrown on to the caller
DispatchCatchRethrow(d) ==
    [ d EXCEPT !.pc = "done", !.outcome = "failed", !.raised = TRUE ]

\* the catch block of a dispatcher: the error is logged
DispatchCatch(d) == [ d EXCEPT !.pc = "done", !.outcome = "failed" ]

\* requestEvolutionAPI('POST', '/message/sendText/...', {number, text})
\* is called.  The entry of d.sends records the request, and for the
\* properties the clock, whether the webhook had been answered and
\* whether the resolved config row was still stored.
InvokeSend(d) ==
    [ d EXCEPT !.pc = "sendText",
               !.sends = Append(@, [ number |-> d.contactJid,
                                     text   |-> d.message[1],
                                     at     |-> now,
                                     acked  |-> calls[d.call].responses # <<>>,
                                     live   |-> d.config[1] \in configs ]) ]

\* TimerDue with the delay taken as milliseconds
TimerDueMillis(d) == now >= d.delayFrom

\* setTimeout(resolve, delay_seconds * 1000) has run out
TimerDue(d) == now >= d.delayFrom + d.delay

\* the part of a dispatcher from the value of getAutoMessageConfig to its
\* next await
AfterConfig(d, configsOf) ==
    LET cfg == IF d.kind = "welcome" THEN configsOf.welcome
               ELSE configsOf.goodbye
        template == IF d.kind = "welcome" THEN cfg[1].welcome_message
                    ELSE cfg[1].goodbye_message
        delay == IF d.kind = "welcome" THEN cfg[1].welcome_delay_seconds
                 ELSE cfg[1].goodbye_delay_seconds
        contactPhone == extractPhoneFromJid(d.contactJid)
        normalized == normalizePhone(contactPhone, DefaultDDI)
        contactData == [ phone |-> IF TruthyText(normalized)
                                   THEN normalized[1] ELSE contactPhone,
                         name |-> d.contactName ]
        groupData == [ id |-> d.groupId, name |-> d.groupName,
                       description |-> d.groupDescription ]
    IN  IF cfg = Absent \/ ~TruthyText(template)
        THEN [ d EXCEPT !.pc = "done", !.outcome = "noconfig" ]
        ELSE LET rendered ==
                   [ d EXCEPT
                       !.config = cfg,
                       !.message = Some(replaceVariables(template[1],
                                           contactData, groupData, now)),
                       !.delay = delay, !.delayFrom = now ]
             IN  IF delay > 0 THEN [ rendered EXCEPT !.pc = "delay" ]
                 ELSE InvokeSend(rendered)

\* `await getInstance(instanceName)` returns
DGetInstance(d) ==
    /\ ~Busy
    /\ dispatches[d].pc = "getInstance"
    /\ \E o \in GetInstanceOutcomes(dispatches[d].instanceName) :
          dispatches' = [dispatches EXCEPT ![d] =
              IF o.kind = "throw" \/ o.instance = Absent
              THEN DispatchCatch(@)
              ELSE [ @ EXCEPT !.pc = "groupQuery", !.instance = o.instance ]]
    /\ UNCHANGED <<movements, calls>>

\* getAutoMessageConfig: the group query returns or throws
DGroupQuery(d) ==
    /\ ~Busy
    /\ dispatches[d].pc = "groupQuery"
    /\ \/ \E rows \in GroupQuery(configs, dispatches[d].instance[1].userId,
                                 dispatches[d].groupId) :
             dispatches' = [dispatches EXCEPT ![d] =
                 [ @ EXCEPT !.pc = "globalQuery", !.groupRows = rows ]]
       \/ dispatches' = [dispatches EXCEPT ![d] = DispatchCatch(@)]
    /\ UNCHANGED <<movements, calls>>

\* getAutoMessageConfig: the global query returns or throws; the
\* dispatcher renders and sends or starts its delay
DGlobalQuery(d) ==
    /\ ~Busy
    /\ dispatches[d].pc = "globalQuery"
    /\ \/ \E rows \in GlobalQuery(configs, dispatches[d].instance[1].userId) :
             dispatches' = [dispatches EXCEPT ![d] =
                 AfterConfig(@, EffectiveConfig(@.groupRows, rows))]
       \/ dispatches' = [dispatches EXCEPT ![d] = DispatchCatch(@)]
    /\ UNCHANGED <<movements, calls>>

\* the delay timer fires: the message is sent
DTimer(d) ==
    /\ ~Busy
    /\ dispatches[d].pc = "delay"
    /\ TimerDue(dispatches[d])
    /\ dispatches' = [dispatches EXCEPT ![d] = InvokeSend(@)]
    /\ UNCHANGED <<movements, calls>>

\* the gateway answers the send, or the request fails
DSendDone(d) ==
    /\ ~Busy
    /\ dispatches[d].pc = "sendText"
    /\ \/ dispatches' = [dispatches EXCEPT ![d] =
                            [ @ EXCEPT !.pc = "done", !.outcome = "sent" ]]
       \/ dispatches' = [dispatches EXCEPT ![d] = DispatchCatch(@)]
    /\ UNCHANGED <<movements, calls>>

----------------------------------------------------------------------------
(* The pipeline.                                                           *)

FullBody ==
    [ welcome_enabled |-> Some(TRUE), welcome_message |-> Some(T_welcome),
      welcome_delay_seconds |-> Some(1), goodbye_enabled |-> Some(TRUE),
      goodbye_message |-> Some(T_goodbye),
      goodbye_delay_seconds |-> Some(1) ]

GlobalOnly ==
    UpsertStatement({}, UpsertValues(UpsertData("u1", Absent, FullBody)), 1, 0)

\* The store a run of the pipeline starts from: a global row with both
\* messages delayed by a second, and a group row that has welcome
\* disabled and its own undelayed goodbye.
GlobalAndGroup ==
    UpsertStatement(GlobalOnly,
        UpsertValues(UpsertData("u1", Some(GroupJid),
            [NoFields EXCEPT !.goodbye_enabled = Some(TRUE),
                             !.goodbye_message = Some(T_other)])), 2, 0)

\* the upserts that run while webhooks are processed
PipelineUpserts ==
    { UpsertData("u1", Absent,
                 [NoFields EXCEPT !.welcome_enabled = Some(FALSE)]) }

Init ==
    /\ configs = GlobalAndGroup
    /\ nextId = Cardinality(configs) + 1
    /\ now = 0
    /\ storeOps = 0
    /\ lastUpsert = NoUpsert
    /\ lastDelete = NoDelete
    /\ getCall = IdleGet
    /\ listCall = IdleList
    /\ InitGroups
    /\ InitPure
    /\ movements = <<>>
    /\ calls = <<>>
    /\ dispatches = <<>>

\* a step of a handler or of a dispatcher, or of the clock
Pipeline(limit) ==
    \/ \E r \in Requests :
          Receive(r[1], r[2], limit) /\ UNCHANGED <<now, getCall, storeVars, apiVars>>
    \/ \E c \in 1..Len(calls) :
          GetInstanceDone(c) /\ UNCHANGED <<now, getCall, storeVars, apiVars>>
    \/ \E c \in 1..Len(calls) :
          FetchGroupInfoDone(c) /\ UNCHANGED <<now, getCall, storeVars, apiVars>>
    \/ \E c \in 1..Len(calls) :
          CreateMovementDone(c) /\ UNCHANGED <<now, getCall, storeVars, apiVars>>
    \/ \E c \in 1..Len(calls) :
          Respond(c) /\ UNCHANGED <<now, getCall, storeVars, apiVars>>
    \/ \E d \in 1..Len(dispatches) :
          DGetInstance(d) /\ UNCHANGED <<now, getCall, storeVars, apiVars>>
    \/ \E d \in 1..Len(dispatches) :
          DGroupQuery(d) /\ UNCHANGED <<now, getCall, storeVars, apiVars>>
    \/ \E d \in 1..Len(dispatches) :
          DGlobalQuery(d) /\ UNCHANGED <<now, getCall, storeVars, apiVars>>
    \/ \E d \in 1..Len(dispatches) :
          DTimer(d) /\ UNCHANGED <<now, getCall, storeVars, apiVars>>
    \/ \E d \in 1..Len(dispatches) :
          DSendDone(d) /\ UNCHANGED <<now, getCall, storeVars, apiVars>>
    \/ ~Busy /\ Tick /\ UNCHANGED <<getCall, storeVars, pipeVars, apiVars>>

\* a config request served while webhooks are processed
Edit ==
    \/ \E data \in PipelineUpserts :
          /\ ~Busy
          /\ Upsert(data, MaxEdits)
          /\ UNCHANGED <<now, getCall, pipeVars, apiVars>>
    \/ \E r \in configs :
          /\ ~Busy
          /\ Delete(r.id, r.user_id, MaxEdits)
          /\ UNCHANGED <<now, getCall, pipeVars, apiVars>>

Next == Pipeline(MaxCalls)

NextEdit == Pipeline(MaxEditCalls) \/ Edit

Spec == Init /\ [][Next]_vars

SpecEdit == Init /\ [][NextEdit]_vars

----------------------------------------------------------------------------
(* Properties of the config store, checked under SpecConfig.               *)

\* C7: getAutoMessageConfig returns, for welcome, the group-specific row
\* if it exists and has welcome enabled, otherwise the global row if it
\* has welcome enabled, otherwise null; goodbye likewise, independently.
C7_EffectiveConfig ==
    (getCall.pc = "done" /\ ~getCall.failed) =>
        LET g   == getCall.groupRows
            gl  == getCall.globalRows
            res == getCall.result[1]
        IN  /\ g # <<>> => /\ g[1].user_id = getCall.user_id
                           /\ g[1].group_id = Some(getCall.group_id)
            /\ gl # <<>> => /\ gl[1].user_id = getCall.user_id
                            /\ gl[1].group_id = Absent
            /\ (g # <<>> /\ g[1].welcome_enabled) => res.welcome = g
            /\ (~(g # <<>> /\ g[1].welcome_enabled)
                /\ gl # <<>> /\ gl[1].welcome_enabled) => res.welcome = gl
            /\ (~(g # <<>> /\ g[1].welcome_enabled)
                /\ ~(gl # <<>> /\ gl[1].welcome_enabled))
                  => res.welcome = Absent
            /\ (g # <<>> /\ g[1].goodbye_enabled) => res.goodbye = g
            /\ (~(g # <<>> /\ g[1].goodbye_enabled)
                /\ gl # <<>> /\ gl[1].goodbye_enabled) => res.goodbye = gl
            /\ (~(g # <<>> /\ g[1].goodbye_enabled)
                /\ ~(gl # <<>> /\ gl[1].goodbye_enabled))
                  => res.goodbye = Absent

\* a call returned with a global row that has welcome enabled and a group
\* row that has welcome disabled: the welcome result is the global row
C7_Witness ==
    /\ getCall.pc = "done" /\ ~getCall.failed
    /\ getCall.groupRows # <<>> /\ ~getCall.groupRows[1].welcome_enabled
    /\ getCall.globalRows # <<>> /\ getCall.globalRows[1].welcome_enabled
    /\ getCall.result[1].welcome = getCall.globalRows
    /\ getCall.result[1].welcome[1].group_id = Absent

ConfigFields ==
    { "welcome_enabled", "welcome_message", "welcome_delay_seconds",
      "goodbye_enabled", "goodbye_message", "goodbye_delay_seconds" }

\* C8: an upsert on an existing (user id, group id) row keeps the stored
\* value of every field that the call does not supply, and refreshes the
\* update timestamp.
C8_PartialUpdate ==
    (lastUpsert.data # Absent /\ lastUpsert.before # Absent) =>
        /\ \A f \in ConfigFields :
              lastUpsert.data[1][f] = Absent
                  => lastUpsert.after[1][f] = lastUpsert.before[1][f]
        /\ lastUpsert.after[1].updated_at = lastUpsert.at

\* C9: a second upsert on the same (user, group) that supplies only
\* goodbye_message leaves the stored welcome_message unchanged.
C9_WelcomeMessageKept ==
    ( /\ lastUpsert.data # Absent
      /\ lastUpsert.before # Absent
      /\ TruthyText(lastUpsert.data[1].goodbye_message)
      /\ \A f \in ConfigFields \ {"goodbye_message"} :
            lastUpsert.data[1][f] = Absent )
    => /\ lastUpsert.after[1].welcome_message
            = lastUpsert.before[1].welcome_message
       /\ lastUpsert.after[1].goodbye_message
            = lastUpsert.data[1].goodbye_message

\* the second call supplied only goodbye_message on a row whose
\* welcome_message the first call had stored
C9_Witness ==
    /\ lastUpsert.data # Absent
    /\ lastUpsert.before # Absent
    /\ TruthyText(lastUpsert.data[1].goodbye_message)
    /\ \A f \in ConfigFields \ {"goodbye_message"} :
          lastUpsert.data[1][f] = Absent
    /\ lastUpsert.before[1].welcome_message = Some(T_welcome)
    /\ lastUpsert.after[1].welcome_message = Some(T_welcome)
    /\ lastUpsert.after[1] \in configs

----------------------------------------------------------------------------
(* Properties of the webhook pipeline, checked under Spec.                 *)

CallIds == 1..Len(calls)
DispatchIds == 1..Len(dispatches)

\* the handler of call c came to its participant loop
ReachedLoop(c) == calls[c].instance # Absent

Entries(c) == Participants(calls[c].body)

HasIdentifier(entry) == TruthyText(entry.id) \/ TruthyText(entry.jid)

HasAction(entry, action) == entry.action = Some(action)

RecordsOf(c, i) == { m \in 1..Len(movements) : movements[m].src = <<c, i>> }

DispatchesOf(c, i, kind) ==
    { d \in DispatchIds : /\ dispatches[d].call = c
                          /\ dispatches[d].idx = i
                          /\ dispatches[d].kind = kind }

AttemptsOf(c, i) ==
    { a \in 1..Len(calls[c].attempts) : calls[c].attempts[a].idx = i }

\* C1: every invocation of the handler sends exactly one response, with
\* status 200, and hands no error to its caller, whatever the body and
\* whichever step fails.
C1_AlwaysAck200 ==
    \A c \in CallIds :
        /\ ~calls[c].raised
        /\ Len(calls[c].responses) <= 1
        /\ \A r \in 1..Len(calls[c].responses) :
              calls[c].responses[r].status = 200
        /\ calls[c].pc = "done" => Len(calls[c].responses) = 1

\* a call answered 200 although the group-info fetch, the persistence and
\* the dispatch failed, and a call answered 200 from the catch block
C1_Witness ==
    /\ \E c \in CallIds :
          /\ calls[c].pc = "done"
          /\ calls[c].groupName = Absent
          /\ calls[c].attempts = <<[ idx |-> 1, ok |-> FALSE ]>>
          /\ \E d \in DispatchesOf(c, 1, "welcome") :
                dispatches[d].outcome = "failed"
          /\ Len(calls[c].responses) = 1
          /\ calls[c].responses[1].status = 200
    /\ \E c \in CallIds :
          /\ calls[c].pc = "done"
          /\ calls[c].responses =
                <<[ status |-> 200, message |-> "Erro processado" ]>>

\* C2: when the instance resolves and persistence succeeds, an entry with
\* an identifier and action add gives exactly one 'entered' record and
\* one welcome dispatch and no goodbye dispatch, one with action remove
\* exactly one 'left' record and one goodbye dispatch and no welcome
\* dispatch, and any other entry no record and no dispatch.
C2_OneRecordOneDispatch ==
    \A c \in CallIds :
        ( /\ calls[c].pc = "done"
          /\ ReachedLoop(c)
          /\ \A a \in 1..Len(calls[c].attempts) : calls[c].attempts[a].ok )
        => \A i \in 1..Len(Entries(c)) :
              LET entry == Entries(c)[i]
                  recs == RecordsOf(c, i)
                  nWelcome == Cardinality(DispatchesOf(c, i, "welcome"))
                  nGoodbye == Cardinality(DispatchesOf(c, i, "goodbye"))
              IN  IF HasIdentifier(entry) /\ HasAction(entry, "add")
                  THEN /\ Cardinality(recs) = 1
                       /\ \A m \in recs : movements[m].movement_type = "entered"
                       /\ nWelcome = 1 /\ nGoodbye = 0
                  ELSE IF HasIdentifier(entry) /\ HasAction(entry, "remove")
                  THEN /\ Cardinality(recs) = 1
                       /\ \A m \in recs : movements[m].movement_type = "left"
                       /\ nGoodbye = 1 /\ nWelcome = 0
                  ELSE recs = {} /\ nWelcome = 0 /\ nGoodbye = 0

\* an event with one add and one remove was processed: one 'entered' and
\* one 'left' record, one welcome and one goodbye dispatch
C2_Witness ==
    \E c \in CallIds :
        /\ calls[c].pc = "done"
        /\ ReachedLoop(c)
        /\ Entries(c) = <<E_add, E_remove>>
        /\ Len(movements) = 2
        /\ movements[1].movement_type = "entered"
        /\ movements[1].src = <<c, 1>>
        /\ movements[2].movement_type = "left"
        /\ movements[2].src = <<c, 2>>
        /\ Len(dispatches) = 2
        /\ DispatchesOf(c, 1, "welcome") = {1}
        /\ DispatchesOf(c, 2, "goodbye") = {2}

\* C3: a failed persistence does not abort the loop: the dispatcher of
\* that participant is fired, every later participant is persisted and
\* dispatched, and the response is 200.
C3_PersistFailureIsolated ==
    \A c \in CallIds :
        (calls[c].pc = "done" /\ ReachedLoop(c)) =>
            /\ \A a \in 1..Len(calls[c].attempts) :
                  LET i == calls[c].attempts[a].idx
                  IN  /\ Cardinality(DispatchesOf(c, i, "welcome")
                                     \cup DispatchesOf(c, i, "goodbye")) = 1
                      /\ calls[c].attempts[a].ok
                            <=> Cardinality(RecordsOf(c, i)) = 1
                      /\ \A j \in (i + 1)..Len(Entries(c)) :
                            ( /\ HasIdentifier(Entries(c)[j])
                              /\ \/ HasAction(Entries(c)[j], "add")
                                 \/ HasAction(Entries(c)[j], "remove") )
                            => Cardinality(AttemptsOf(c, j)) = 1
            /\ Len(calls[c].responses) = 1
            /\ calls[c].responses[1].status = 200

\* the persistence of the first participant failed; its dispatcher was
\* fired, the second participant was persisted and dispatched
C3_Witness ==
    \E c \in CallIds :
        /\ calls[c].pc = "done"
        /\ calls[c].attempts = <<[ idx |-> 1, ok |-> FALSE ],
                                 [ idx |-> 2, ok |-> TRUE ]>>
        /\ RecordsOf(c, 1) = {}
        /\ Cardinality(RecordsOf(c, 2)) = 1
        /\ Cardinality(DispatchesOf(c, 1, "welcome")) = 1
        /\ Cardinality(DispatchesOf(c, 2, "goodbye")) = 1
        /\ calls[c].responses[1].status = 200

\* the dispatcher of the last entry that the loop of its call processes
LastOfCall(d) ==
    \A j \in (dispatches[d].idx + 1)..Len(Entries(dispatches[d].call)) :
        ~Processed(Entries(dispatches[d].call)[j])

\* C4 as stated: a dispatch whose config has a delay > 0 sends only after
\* the 200 response of its webhook call.
C4_AckBeforeDelayedSend ==
    \A d \in DispatchIds :
        dispatches[d].delay > 0 =>
            \A s \in 1..Len(dispatches[d].sends) : dispatches[d].sends[s].acked

\* C4 amended: the handler awaits no dispatch, so the dispatch fired for
\* the last processed entry of a call sends only after the 200 response,
\* whatever its delay.
C4_NeverAwaitsDispatch ==
    \A d \in DispatchIds :
        LastOfCall(d) =>
            \A s \in 1..Len(dispatches[d].sends) : dispatches[d].sends[s].acked

\* two dispatches of two webhook calls are suspended in their delay at
\* the same time, both calls being answered already
C4_Witness ==
    \E d1 \in DispatchIds, d2 \in DispatchIds :
        /\ dispatches[d1].call # dispatches[d2].call
        /\ dispatches[d1].pc = "delay"
        /\ dispatches[d2].pc = "delay"
        /\ calls[dispatches[d1].call].pc = "done"
        /\ calls[dispatches[d2].call].pc = "done"

\* C5: a dispatch never raises to its caller and never retries: it calls
\* the gateway send at most once and completes normally.
C5_DispatchNeverRaises ==
    \A d \in DispatchIds :
        /\ ~dispatches[d].raised
        /\ Len(dispatches[d].sends) <= 1
        /\ dispatches[d].pc = "done" =>
              dispatches[d].outcome \in {"sent", "failed", "noconfig"}
        /\ dispatches[d].outcome = "sent" => Len(dispatches[d].sends) = 1

\* a dispatch whose gateway send failed completed without a second send,
\* and one failed at its instance lookup
C5_Witness ==
    /\ \E d \in DispatchIds :
          /\ dispatches[d].pc = "done"
          /\ dispatches[d].outcome = "failed"
          /\ Len(dispatches[d].sends) = 1
    /\ \E d \in DispatchIds :
          /\ dispatches[d].pc = "done"
          /\ dispatches[d].outcome = "failed"
          /\ dispatches[d].instance = Absent

----------------------------------------------------------------------------
(* Properties of a dispatch under config edits, checked under SpecEdit.    *)

DelayOf(d) ==
    IF d.kind = "welcome" THEN d.config[1].welcome_delay_seconds
    ELSE d.config[1].goodbye_delay_seconds

C6_Order ==
    \A d \in DispatchIds :
        LET x == dispatches[d]
        IN  /\ x.pc \in {"groupQuery", "globalQuery", "delay", "sendText"}
                  => x.instance # Absent
            /\ (x.pc \in {"delay", "sendText"} \/ x.sends # <<>>)
                  => /\ x.instance # Absent
                     /\ x.config # Absent
                     /\ x.message # Absent
                     /\ x.delay = DelayOf(x)
            /\ x.pc = "delay" => x.delay > 0 /\ x.sends = <<>>
            /\ \A s \in 1..Len(x.sends) :
                  /\ x.sends[s].text = x.message[1]
                  /\ x.sends[s].at >= x.delayFrom + x.delay
                  /\ x.delay = 0 => x.sends[s].at = x.delayFrom

C6_NoCancel ==
    \A d \in DispatchIds :
        dispatches[d].pc = "delay" =>
            \/ dispatches'[d] = dispatches[d]
            \/ /\ dispatches'[d].pc = "sendText"
               /\ Len(dispatches'[d].sends) = 1
               /\ dispatches'[d].sends[1].text = dispatches[d].message[1]
               /\ dispatches'[d].sends[1].number = dispatches[d].contactJid

\* C6: a dispatch resolves its instance, then its config, renders, delays
\* and sends: with a delay d > 0 the send comes d seconds or more after
\* the rendering, with d = 0 at once, and a dispatch in its delay can only
\* go on to send the text it rendered, whatever happens to the config.
C6_DelayThenSend == [](C6_Order) /\ [][C6_NoCancel]_vars

\* a welcome dispatch resolved the global row, which was deleted or
\* changed during its delay, and sent the text rendered before the delay
C6_Witness ==
    \E d \in DispatchIds :
        /\ dispatches[d].kind = "welcome"
        /\ dispatches[d].delay > 0
        /\ dispatches[d].config[1].group_id = Absent
        /\ Len(dispatches[d].sends) = 1
        /\ ~dispatches[d].sends[1].live
        /\ dispatches[d].sends[1].at > dispatches[d].delayFrom
        /\ dispatches[d].sends[1].text =
              <<"Oi", " ", "Maria", " ", "em", " ", "Familia">>

----------------------------------------------------------------------------
(* Properties of the handler's validation, checked under Spec.             *)

\* nothing was done for call c: no instance lookup, no gateway call, no
\* createMovement, no record and no dispatch
NoProcessing(c) ==
    /\ calls[c].lookup = "none"
    /\ ~calls[c].fetched
    /\ calls[c].attempts = <<>>
    /\ \A m \in 1..Len(movements) : movements[m].src[1] # c
    /\ \A d \in DispatchIds : dispatches[d].call # c

Answered200(c) ==
    /\ calls[c].pc = "done"
    /\ Len(calls[c].responses) = 1
    /\ calls[c].responses[1].status = 200

\* the payload lacks a group id, or its participant list is missing, is
\* not a list, or is empty
BadPayload(body) ==
    /\ body.present
    /\ \/ body.data = Absent
       \/ body.data[1].id = Absent
       \/ body.data[1].participants = Absent
       \/ ~body.data[1].participants[1].isArray
       \/ body.data[1].participants[1].items = <<>>

\* C11: an event whose payload lacks a group id, or whose participant
\* list is missing, is not a list, or is empty, is answered with success
\* at once and with no processing: no instance lookup, no gateway call,
\* no record and no dispatch.
C11_BadPayloadNotProcessed ==
    \A c \in CallIds :
        BadPayload(calls[c].body) => Answered200(c) /\ NoProcessing(c)

\* C12: a payload whose event field is absent or is not
\* "group-participants.update" is answered 200 with no call to the
\* movement store, no instance lookup, no gateway call and no dispatch.
C12_UnrecognizedEventIgnored ==
    \A c \in CallIds :
        ( \/ ~calls[c].body.present
          \/ calls[c].body.event = Absent
          \/ calls[c].body.event[1] # ParticipantsUpdate )
        => Answered200(c) /\ NoProcessing(c)

\* an event of another type, with a valid payload of one added
\* participant, was answered as not processed
C12_Witness ==
    \E c \in CallIds :
        /\ calls[c].body.event = Some("messages.upsert")
        /\ DataValid(calls[c].body.data)
        /\ Participants(calls[c].body) = <<E_add>>
        /\ calls[c].responses =
              <<[ status |-> 200, message |-> "Evento nao processado" ]>>

\* C13: when the instance name does not resolve to an instance the
\* handler responds success and stops: no group-info fetch, no record and
\* no dispatch for the event.
C13_UnknownInstanceStops ==
    \A c \in CallIds :
        calls[c].lookup = "missing" =>
            /\ Answered200(c)
            /\ ~calls[c].fetched
            /\ calls[c].attempts = <<>>
            /\ \A m \in 1..Len(movements) : movements[m].src[1] # c
            /\ \A d \in DispatchIds : dispatches[d].call # c

\* a valid event for an instance name that is not stored was answered
\* after the lookup returned nothing
C13_Witness ==
    \E c \in CallIds :
        /\ calls[c].instanceName = "ghost"
        /\ calls[c].lookup = "missing"
        /\ Participants(calls[c].body) = <<E_add>>
        /\ calls[c].responses =
              <<[ status |-> 200, message |-> "Instancia nao encontrada" ]>>

----------------------------------------------------------------------------
(* Properties of the stored movements, checked under Spec.                 *)

\* the number of the participant that record m was made for
ParticipantNumber(m) ==
    LET c == movements[m].src[1]
        i == movements[m].src[2]
    IN  extractPhoneFromJid(ParticipantJid(Entries(c)[i])[1])

\* C14 as stated: every stored record has the contact phone normalize
\* gives for the participant's number, never null, and a movement type
\* 'entered' or 'left'.
C14_CanonicalPhone ==
    \A m \in 1..Len(movements) :
        /\ movements[m].contact_phone # Absent
        /\ movements[m].contact_phone =
              normalizePhone(ParticipantNumber(m), DefaultDDI)
        /\ movements[m].movement_type \in {"entered", "left"}

\* What the code gives in place of C14: every stored record has a
\* movement type 'entered' or 'left'; its contact phone is normalize
\* applied to the number by the handler and again by createMovement, and
\* is null exactly when normalize rejects the number.
StoredPhoneTwiceNormalized ==
    \A m \in 1..Len(movements) :
        LET number == ParticipantNumber(m)
            once == normalizePhone(number, DefaultDDI)
        IN  /\ movements[m].movement_type \in {"entered", "left"}
            /\ once = Absent <=> movements[m].contact_phone = Absent
            /\ once # Absent =>
                  /\ movements[m].contact_phone =
                        normalizePhone(once[1], DefaultDDI)
                  /\ normalizePhone(movements[m].contact_phone[1],
                                    DefaultDDI) = movements[m].contact_phone

\* a record of a number with two leading zeros, whose stored phone is not
\* what one normalize gives, next to a record of a seven-digit number,
\* stored without a phone
C14_Witness ==
    \E m1 \in 1..Len(movements), m2 \in 1..Len(movements) :
        /\ ParticipantNumber(m1) = extractPhoneFromJid(JidZeros)
        /\ movements[m1].contact_phone
              = Some(<<"5","5","1","1","9","8","7","6","5","4","3","2">>)
        /\ movements[m1].contact_phone
              # normalizePhone(ParticipantNumber(m1), DefaultDDI)
        /\ movements[m1].movement_type = "entered"
        /\ ParticipantNumber(m2) = extractPhoneFromJid(JidShort)
        /\ movements[m2].contact_phone = Absent
        /\ movements[m2].movement_type = "left"

\* the columns of a record that come from the event
EventColumns(row) ==
    <<row.user_id, row.instance_id, row.group_id, row.contact_phone,
      row.movement_type, row.timestamp>>

\* every createMovement of call c that returned has its own record
OneRecordPerInsert ==
    \A c \in CallIds :
        Cardinality({ m \in 1..Len(movements) : movements[m].src[1] = c })
            = Cardinality({ a \in 1..Len(calls[c].attempts) :
                               calls[c].attempts[a].ok })

\* a step leaves every stored record as it is
RecordsKept ==
    /\ Len(movements') >= Len(movements)
    /\ SubSeq(movements', 1, Len(movements)) = movements

\* C15: movement records are append-only and not de-duplicated: every
\* successful insert adds a record, also for an event delivered twice,
\* and every step keeps every record of the state before it unchanged.
C15_AppendOnly == [](OneRecordPerInsert) /\ [][RecordsKept]_vars

\* the same event was delivered twice and both deliveries are stored: two
\* records that agree on every column that comes from the event
C15_Witness ==
    \E c1 \in CallIds, c2 \in CallIds :
        /\ c1 # c2
        /\ calls[c1].body = calls[c2].body
        /\ calls[c1].instanceName = calls[c2].instanceName
        /\ calls[c1].pc = "done" /\ calls[c2].pc = "done"
        /\ \E m1 \in 1..Len(movements), m2 \in 1..Len(movements) :
              /\ movements[m1].src = <<c1, 1>>
              /\ movements[m2].src = <<c2, 1>>
              /\ EventColumns(movements[m1]) = EventColumns(movements[m2])

----------------------------------------------------------------------------
(* deleteAutoMessageConfig on a store of three rows, and its properties,   *)
(* checked under SpecDelete.                                               *)

\* the rows of user u1 and a global row of user u2
ThreeRows ==
    UpsertStatement(GlobalAndGroup,
        UpsertValues(UpsertData("u2", Absent, FullBody)), 3, 0)

InitDelete ==
    /\ configs = ThreeRows
    /\ nextId = Cardinality(configs) + 1
    /\ now = 0
    /\ storeOps = 0
    /\ lastUpsert = NoUpsert
    /\ lastDelete = NoDelete
    /\ getCall = IdleGet
    /\ listCall = IdleList
    /\ InitGroups
    /\ InitPure
    /\ movements = <<>>
    /\ calls = <<>>
    /\ dispatches = <<>>

\* DELETE /auto-messages/:id by either user, for a stored or a missing id,
\* and the upsert that makes the global row of a user again
NextDelete ==
    \/ \E id \in 1..(MaxDeleteOps + 1), u \in Users :
          /\ Delete(id, u, MaxDeleteOps)
          /\ UNCHANGED <<now, getCall, pipeVars, apiVars>>
    \/ \E u \in Users :
          /\ Upsert(UpsertData(u, Absent, FullBody), MaxDeleteOps)
          /\ UNCHANGED <<now, getCall, pipeVars, apiVars>>

SpecDelete == InitDelete /\ [][NextDelete]_vars

\* the rows that the last delete call names by id and owner
DeleteMatched ==
    { r \in lastDelete.before :
        r.id = lastDelete.id /\ r.user_id = lastDelete.user_id }

\* C16: deleteAutoMessageConfig(id, userId) removes a row only when its id
\* and its owner both match and returns true exactly when a row was
\* removed; for a missing id or another user's row it returns false and
\* leaves the store unchanged, and a successful delete repeated returns
\* false and changes nothing.
C16_DeleteScopedByOwner ==
    lastDelete.called =>
        /\ configs = lastDelete.before \ DeleteMatched
        /\ lastDelete.result <=> DeleteMatched # {}
        /\ lastDelete.result <=> configs # lastDelete.before
        /\ lastDelete.repeats =>
              ~lastDelete.result /\ configs = lastDelete.before

\* a successful delete was repeated and returned false, with a row of
\* another user in the store
C16_Witness ==
    /\ lastDelete.called
    /\ lastDelete.repeats
    /\ ~lastDelete.result
    /\ configs = lastDelete.before
    /\ \E r \in configs : r.user_id # lastDelete.user_id

----------------------------------------------------------------------------
(* listMovements (services/groupMovementService), checked under SpecList.  *)

DefaultPage == 1
DefaultLimit == 50

OtherGroupJid == "g2@g.us"

\* filters.page || 1, filters.limit || 50: undefined, 0 and NaN are falsy
NumberOr(o, default) == IF o # Absent /\ o[1] # 0 THEN o[1] ELSE default

\* ListOffset with the offset of the page after
ListOffsetNextPage(page, limit) == page * limit

\* const offset = (page - 1) * limit
ListOffset(page, limit) == (page - 1) * limit

\* the WHERE clause built from the filters: a condition for every truthy
\* filter, joined by AND
WhereClause(row, f) ==
    /\ row.user_id = f.user_id
    /\ TruthyStr(f.instance_id) => row.instance_id = f.instance_id[1]
    /\ TruthyStr(f.group_id) => row.group_id = f.group_id[1]
    /\ TruthyStr(f.movement_type) => row.movement_type = f.movement_type[1]
    /\ f.start_date # Absent => row.timestamp >= f.start_date[1]
    /\ f.end_date # Absent => row.timestamp <= f.end_date[1]

Matching(store, f) ==
    { store[m] : m \in { k \in 1..Len(store) : WhereClause(store[k], f) } }

\* ORDER BY timestamp DESC: rows of equal timestamp come in an order the
\* database chooses, here by id either way
RECURSIVE OrderByTimestampDesc(_, _)
OrderByTimestampDesc(rows, tie) ==
    IF rows = {} THEN <<>>
    ELSE LET first == CHOOSE r \in rows : \A q \in rows :
                          \/ r.timestamp > q.timestamp
                          \/ /\ r.timestamp = q.timestamp
                             /\ IF tie = "asc" THEN r.id <= q.id
                                ELSE r.id >= q.id
         IN  <<first>> \o OrderByTimestampDesc(rows \ {first}, tie)

\* LIMIT $n OFFSET $m
LimitOffset(rows, limit, offset) ==
    SubSeq(rows, offset + 1,
           IF offset + limit < Len(rows) THEN offset + limit ELSE Len(rows))

\* Math.ceil(total / limit)
CeilDiv(total, limit) ==
    IF total % limit = 0 THEN total \div limit ELSE (total \div limit) + 1

\* a stored row, as createMovement writes it
ListRow(i) ==
    MovementRow([ user_id       |-> IF i > 25 THEN "u2" ELSE "u1",
                  instance_id   |-> IF i % 5 = 0 THEN "i2" ELSE "i1",
                  group_id      |-> IF i % 3 = 0 THEN OtherGroupJid
                                    ELSE GroupJid,
                  group_name    |-> Absent,
                  contact_phone |-> extractPhoneFromJid(JidA),
                  contact_name  |-> Absent,
                  movement_type |-> IF i % 2 = 1 THEN "entered" ELSE "left",
                  author_phone  |-> Absent,
                  timestamp     |-> i \div 2 ],
                i, <<0, i>>)

\* 25 rows of user u1 and two of user u2, two rows to a timestamp
ListStore == [ i \in 1..27 |-> ListRow(i) ]

\* the row a webhook stores while a list call is between its two queries
RowStoredMeanwhile ==
    [ ListRow(Len(ListStore) + 1) EXCEPT !.user_id = "u1", !.timestamp = 20 ]

NoFilters ==
    [ user_id |-> "u1", instance_id |-> Absent, group_id |-> Absent,
      movement_type |-> Absent, start_date |-> Absent, end_date |-> Absent,
      page |-> Absent, limit |-> Absent ]

\* the filters of GET /movements
ListFilters ==
    { [ f EXCEPT !.page = pg, !.limit = lm ] :
        f \in { NoFilters,
                [NoFilters EXCEPT !.user_id = "u2"],
                [NoFilters EXCEPT !.group_id = Some(OtherGroupJid)],
                [NoFilters EXCEPT !.instance_id = Some("i1"),
                                  !.movement_type = Some("left")],
                [NoFilters EXCEPT !.start_date = Some(3), !.end_date = Some(8)],
                [NoFilters EXCEPT !.group_id = Some(""),
                                  !.end_date = Some(0)] },
        pg \in { Absent, Some(1), Some(2), Some(3) },
        lm \in { Absent, Some(1), Some(2), Some(10) } }

\* listMovements(filters): pool connect
ListStart(f) ==
    /\ listCall.pc = "idle"
    /\ listCall' = [ IdleList EXCEPT !.pc = "count", !.filters = f ]

\* SELECT COUNT(*) as total FROM group_movements WHERE ...
ListCount ==
    /\ listCall.pc = "count"
    /\ listCall' = [ listCall EXCEPT
          !.pc = "data",
          !.total = Cardinality(Matching(movements, listCall.filters)),
          !.countedOn = movements ]

\* a createMovement of a webhook commits between the two queries
ListInsert ==
    /\ listCall.pc = "data"
    /\ Len(movements) = Len(ListStore)
    /\ movements' = InsertMovement(movements, RowStoredMeanwhile)

\* SELECT * ... ORDER BY timestamp DESC LIMIT .. OFFSET ..; the call returns
ListData ==
    /\ listCall.pc = "data"
    /\ \E tie \in {"asc", "desc"} :
          LET f == listCall.filters
              page == NumberOr(f.page, DefaultPage)
              limit == NumberOr(f.limit, DefaultLimit)
              rows == OrderByTimestampDesc(Matching(movements, f), tie)
          IN  listCall' = [ listCall EXCEPT
                !.pc = "done",
                !.listedOn = movements,
                !.result = [ movements   |-> LimitOffset(rows, limit,
                                                ListOffset(page, limit)),
                             total       |-> listCall.total,
                             page        |-> page,
                             limit       |-> limit,
                             total_pages |-> CeilDiv(listCall.total, limit) ] ]

InitList ==
    /\ InitStore
    /\ InitPure
    /\ movements = ListStore
    /\ calls = <<>>
    /\ dispatches = <<>>

NextList ==
    \/ \E f \in ListFilters :
          ListStart(f) /\ UNCHANGED <<now, getCall, storeVars, pipeVars,
                                      groupVars, poolVars, pureVars>>
    \/ ListCount /\ UNCHANGED <<now, getCall, storeVars, pipeVars,
                                      groupVars, poolVars, pureVars>>
    \/ ListInsert
          /\ UNCHANGED <<now, getCall, storeVars, calls, dispatches, apiVars>>
    \/ ListData /\ UNCHANGED <<now, getCall, storeVars, pipeVars,
                                      groupVars, poolVars, pureVars>>

SpecList == InitList /\ [][NextList]_vars

\* the rows of the store the data query ran on that match the filters
ListMatched == Matching(listCall.listedOn, listCall.filters)

\* C17: listMovements with page p >= 1 and limit l >= 1 returns the rows
\* at positions (p-1)*l+1 .. p*l of the matching rows ordered by timestamp
\* descending, total = the number of matching rows (of the count query)
\* and total_pages = ceil(total/l); page defaults to 1, limit to 50.
C17_ListPage ==
    listCall.pc = "done" =>
        LET f == listCall.filters
            r == listCall.result
            p == IF f.page = Absent THEN 1 ELSE f.page[1]
            l == IF f.limit = Absent THEN 50 ELSE f.limit[1]
            n == Cardinality(ListMatched)
            k == (p - 1) * l
            got == r.movements
            gotSet == { got[i] : i \in 1..Len(got) }
            others == ListMatched \ gotSet
        IN  /\ r.page = p /\ r.limit = l
            /\ r.total = Cardinality(Matching(listCall.countedOn, f))
            /\ r.total_pages * l >= r.total
            /\ (r.total_pages - 1) * l < r.total \/ r.total_pages = 0
            /\ Len(got) = IF n <= k THEN 0
                          ELSE IF n - k < l THEN n - k ELSE l
            /\ gotSet \subseteq ListMatched
            /\ Cardinality(gotSet) = Len(got)
            /\ \A i \in 1..(Len(got) - 1) :
                  got[i].timestamp >= got[i + 1].timestamp
            /\ got # <<>> =>
                  LET before == { o \in others :
                                    o.timestamp > got[Len(got)].timestamp }
                      mayBefore == { o \in others :
                                       o.timestamp >= got[1].timestamp }
                  IN  /\ before \subseteq mayBefore
                      /\ Cardinality(before) <= k
                      /\ k <= Cardinality(mayBefore)

\* page 2 with limit 10 over 25 matching rows: 10 rows, total_pages 3
C17_Witness ==
    /\ listCall.pc = "done"
    /\ listCall.filters = [NoFilters EXCEPT !.page = Some(2),
                                            !.limit = Some(10)]
    /\ listCall.listedOn = listCall.countedOn
    /\ Cardinality(ListMatched) = 25
    /\ Len(listCall.result.movements) = 10
    /\ listCall.result.total = 25
    /\ listCall.result.total_pages = 3
    /\ listCall.result.movements[1].timestamp = 7
    /\ listCall.result.movements[10].timestamp = 3


\* ---------------------------------------------------------------------------
\* Group controller (controllers/groupController), checked under SpecGroups
\* ---------------------------------------------------------------------------

\* the requests of one user for one instance; both share the cache key
\* groups:<instanceName>
GroupUserId == "u1"
GroupInstanceId == "i1"

MutatingOps == { "leaveGroup", "createGroup", "updateGroupPicture",
                 "updateGroupSubject", "updateGroupDescription",
                 "updateGroupSettings" }

GroupOps == { "getAllGroups" } \cup MutatingOps

\* what fetchAllGroups can return after the mapping: no group or one group
Listings == { <<>>, <<"g1">> }

RateOverlimit == "rate-overlimit"

\* the rejections of requestEvolutionAPI: an Error without statusCode whose
\* message holds the status line and the raw upstream body, or the timeout
UpstreamErrors ==
    { [ statusCode |-> Absent, message |-> <<"HTTP 429", RateOverlimit>> ],
      [ statusCode |-> Absent, message |-> <<"HTTP 500">> ],
      [ statusCode |-> Absent, message |-> <<"Timeout">> ] }

UpstreamOutcomes ==
    [ ok : {TRUE}, groups : Listings, error : {Absent} ]
        \cup [ ok : {FALSE}, groups : {<<>>}, error : { Some(e) : e \in UpstreamErrors } ]

\* errorMessage.includes('rate-overlimit'), never true
isRateLimitErrorNever(error) == FALSE

\* errorMessage.includes('rate-overlimit')
isRateLimitError(error) ==
    \E i \in 1..Len(error.message) : error.message[i] = RateOverlimit

\* an error that carries a statusCode keeps it and its message; any other
\* Error keeps its own message and becomes a 500
handleControllerError(error, defaultMessage) ==
    IF error.statusCode # Absent
    THEN [ statusCode |-> error.statusCode[1],
           status     |-> "error",
           message    |-> IF error.message # <<>> THEN error.message
                          ELSE <<defaultMessage>> ]
    ELSE [ statusCode |-> 500,
           status     |-> "server_error",
           message    |-> error.message ]

createNotFoundError == [ statusCode |-> 404, status |-> "not_found",
                         message |-> <<"Instancia nao encontrado(a)">> ]

createValidationError(message) ==
    [ statusCode |-> 400, status |-> "validation_error",
      message |-> <<message>> ]

\* createAppError(message, statusCode), status left at its default
createAppError(message, statusCode) ==
    [ statusCode |-> statusCode, status |-> "error", message |-> <<message>> ]

\* the handlers of the auto-message and movement controllers
ControllerOps == { "upsertAutoMessage", "listAutoMessages", "getAutoMessage",
                   "deleteAutoMessage", "listMovements", "getGroupMovements" }

\* req.user?.id: absent or the user's id
Identities == { Absent, Some(GroupUserId) }

NotAuthenticated == "Usuario nao autenticado"

\* the default message each handler hands to handleControllerError
ContextMessage(op) ==
    CASE op = "getAllGroups" -> "Limite de requisicoes excedido"
      [] op = "leaveGroup" -> "Erro ao sair do grupo"
      [] op = "createGroup" -> "Erro ao criar grupo"
      [] op = "updateGroupPicture" -> "Erro ao atualizar imagem do grupo"
      [] op = "updateGroupSubject" -> "Erro ao atualizar nome do grupo"
      [] op = "updateGroupDescription" -> "Erro ao atualizar descricao do grupo"
      [] OTHER -> "Erro ao atualizar configuracao do grupo"

\* res.status(200).json({status: 'success', groups, count, cached})
GroupsResponse(groups, cached) ==
    [ statusCode |-> 200, status |-> "success", groups |-> Some(groups),
      cached |-> cached, message |-> <<>> ]

\* res.status(200 or 201).json({status: 'success', message})
OpResponse(op) ==
    [ statusCode |-> IF op = "createGroup" THEN 201 ELSE 200,
      status |-> "success", groups |-> Absent, cached |-> FALSE,
      message |-> <<>> ]

\* next(appError): the error handler answers with the error's status code
ErrorResponse(appError) ==
    [ statusCode |-> appError.statusCode, status |-> appError.status,
      groups |-> Absent, cached |-> FALSE, message |-> appError.message ]

\* history: the number of changes the gateway has carried out
UpstreamVersion ==
    Cardinality({ j \in 1..Len(groupCalls) : groupCalls[j].version > 0 })

\* history: the latest gateway change whose request has deleted the cache
\* entry and has been answered, 0 when there is none
RespondedVersion ==
    LET done == { groupCalls[j].version : j \in
                    { k \in 1..Len(groupCalls) :
                        /\ groupCalls[k].pc = "done"
                        /\ groupCalls[k].del = "ok" } }
    IN  IF done = {} THEN 0
        ELSE CHOOSE v \in done : \A w \in done : w <= v

\* a request that passed the validation of its parameters; firstGet,
\* secondGet, entryAtSecondGet, del, entryAfterDel, notified, version,
\* fetchedAt, served and mustSee are history; mustSee is the latest change
\* that had deleted the entry and been answered when the request arrived
NewGroupCall(op, user) ==
    [ op |-> op, user |-> user, instance |-> "none",
      pc |-> "instance", error |-> Absent, groups |-> <<>>,
      response |-> Absent, firstGet |-> "none", secondGet |-> "none",
      entryAtSecondGet |-> Absent, del |-> "none", entryAfterDel |-> Absent,
      notified |-> 0, version |-> 0, fetchedAt |-> 0,
      mustSee |-> RespondedVersion, served |-> 0 ]

GroupRespond(call, response) ==
    [ call EXCEPT !.pc = "done", !.response = Some(response) ]

\* socket.emit('groups-updated', {userId, instanceId}) when connected,
\* pendingEvents.push(...) otherwise
emitGroupsUpdate(sock, userId, instanceId) ==
    LET eventData == [ event |-> "groups-updated", userId |-> userId,
                       instanceId |-> instanceId ]
    IN  IF sock.connected
        THEN [ sock EXCEPT !.emitted = Append(@, eventData) ]
        ELSE [ sock EXCEPT !.pending = Append(@, eventData) ]

\* if (!userId) return next(createValidationError(...)), always a 400
GroupIdentityError == createValidationError(NotAuthenticated)

\* the entry of a group handler: the identity check, then the instance lookup
GroupStartUpTo(op, user, limit) ==
    /\ Len(groupCalls) < limit
    /\ groupCalls' = Append(groupCalls,
          IF user = Absent
          THEN GroupRespond(NewGroupCall(op, user),
                            ErrorResponse(GroupIdentityError))
          ELSE NewGroupCall(op, user))
    /\ UNCHANGED <<groupsCache, cacheStamp, socket>>

GroupStart(op, user) == GroupStartUpTo(op, user, MaxGroupCalls)

\* the entry of an auto-message or movement handler:
\* if (!userId) throw createAppError('Usuário não autenticado', 401), which
\* the catch hands to next unchanged; otherwise the service is awaited
ControllerStart(op, user) ==
    /\ Len(groupCalls) < MaxGroupCalls
    /\ groupCalls' = Append(groupCalls,
          IF user = Absent
          THEN GroupRespond(NewGroupCall(op, user),
                            ErrorResponse(createAppError(NotAuthenticated, 401)))
          ELSE [ NewGroupCall(op, user) EXCEPT !.pc = "service" ])
    /\ UNCHANGED <<groupsCache, cacheStamp, socket>>

\* the awaited service returns and the handler answers 200, or it throws and
\* the catch hands the error to next
ServiceDone(i, ok) ==
    LET call == groupCalls[i] IN
    /\ call.pc = "service"
    /\ groupCalls' = [ groupCalls EXCEPT ![i] =
          IF ok THEN GroupRespond(call, OpResponse(call.op))
          ELSE GroupRespond(call, ErrorResponse(
                 createAppError("query failed", 500))) ]
    /\ UNCHANGED <<groupsCache, cacheStamp, socket>>

\* await getInstanceInfo(instanceId, userId): the instance or null
GetAndValidateInstance(i, found) ==
    LET call == groupCalls[i] IN
    /\ call.pc = "instance"
    /\ groupCalls' = [ groupCalls EXCEPT ![i] =
          IF ~found
          THEN [ GroupRespond(call, ErrorResponse(createNotFoundError))
                   EXCEPT !.instance = "missing" ]
          ELSE [ call EXCEPT !.instance = "found", !.pc =
                   CASE call.op = "getAllGroups" -> "cacheGet"
                     [] call.op = "updateGroupPicture" -> "upload"
                     [] OTHER -> "upstream" ] ]
    /\ UNCHANGED <<groupsCache, cacheStamp, socket>>

\* await uploadFileToService(...): a result or null
UploadFile(i, ok) ==
    LET call == groupCalls[i] IN
    /\ call.pc = "upload"
    /\ groupCalls' = [ groupCalls EXCEPT ![i] =
          IF ok THEN [ call EXCEPT !.pc = "upstream" ]
          ELSE GroupRespond(call, ErrorResponse(
                 createValidationError("Erro ao fazer upload da imagem"))) ]
    /\ UNCHANGED <<groupsCache, cacheStamp, socket>>

\* the first await redisClient.get(cacheKey): a hit answers from the cache,
\* a miss or a failure of the read goes on to the gateway
CacheGet(i, ok) ==
    LET call == groupCalls[i] IN
    /\ call.pc = "cacheGet"
    /\ groupCalls' = [ groupCalls EXCEPT ![i] =
          IF ok /\ groupsCache # Absent
          THEN [ GroupRespond(call, GroupsResponse(groupsCache[1], TRUE))
                   EXCEPT !.firstGet = "hit", !.served = cacheStamp ]
          ELSE [ call EXCEPT !.pc = "fetch",
                             !.firstGet = IF ok THEN "miss" ELSE "threw" ] ]
    /\ UNCHANGED <<groupsCache, cacheStamp, socket>>

\* await requestEvolutionAPI('GET', '/group/fetchAllGroups/...') and the
\* start of its catch block
FetchAllGroups(i, outcome) ==
    LET call == groupCalls[i] IN
    /\ call.pc = "fetch"
    /\ groupCalls' = [ groupCalls EXCEPT ![i] =
          IF outcome.ok
          THEN [ call EXCEPT !.pc = "setex", !.groups = outcome.groups,
                             !.fetchedAt = UpstreamVersion ]
          ELSE IF isRateLimitError(outcome.error[1])
          THEN [ call EXCEPT !.pc = "cacheGetAfterLimit",
                             !.error = outcome.error ]
          ELSE [ GroupRespond(call, GroupsResponse(<<>>, FALSE))
                   EXCEPT !.error = outcome.error ] ]
    /\ UNCHANGED <<groupsCache, cacheStamp, socket>>

\* await redisClient.setex(cacheKey, CACHE_TTL, ...), a failure only logged,
\* then the success response
CacheSetex(i, ok) ==
    LET call == groupCalls[i] IN
    /\ call.pc = "setex"
    /\ groupsCache' = IF ok THEN Some(call.groups) ELSE groupsCache
    /\ cacheStamp' = IF ok THEN call.fetchedAt ELSE cacheStamp
    /\ groupCalls' = [ groupCalls EXCEPT ![i] =
          GroupRespond(call, GroupsResponse(call.groups, FALSE)) ]
    /\ UNCHANGED socket

\* the second await redisClient.get(cacheKey), after a rate-limit error
CacheGetAfterLimit(i, ok) ==
    LET call == groupCalls[i] IN
    /\ call.pc = "cacheGetAfterLimit"
    /\ groupCalls' = [ groupCalls EXCEPT ![i] =
          [ ( IF ok /\ groupsCache # Absent
              THEN GroupRespond(call, GroupsResponse(groupsCache[1], TRUE))
              ELSE GroupRespond(call, ErrorResponse(
                     handleControllerError(call.error[1],
                                           ContextMessage(call.op)))) )
            EXCEPT !.served = IF ok /\ groupsCache # Absent
                              THEN cacheStamp ELSE @,
                   !.secondGet = IF ~ok THEN "threw"
                                 ELSE IF groupsCache # Absent THEN "hit"
                                 ELSE "miss",
                   !.entryAtSecondGet = groupsCache ] ]
    /\ UNCHANGED <<groupsCache, cacheStamp, socket>>

\* await requestEvolutionAPI(...) of a mutating operation and its catch block
UpstreamChange(i, outcome) ==
    LET call == groupCalls[i] IN
    /\ call.pc = "upstream"
    /\ groupCalls' = [ groupCalls EXCEPT ![i] =
          IF outcome.ok
          THEN [ call EXCEPT !.pc = "invalidate",
                             !.version = UpstreamVersion + 1 ]
          ELSE [ GroupRespond(call, ErrorResponse(
                   handleControllerError(outcome.error[1],
                                         ContextMessage(call.op))))
                   EXCEPT !.error = outcome.error ] ]
    /\ UNCHANGED <<groupsCache, cacheStamp, socket>>

\* invalidateGroupsCacheAndEmitUpdate: the emit follows the del in one try
\* block, so a failed del skips it
InvalidateEmit(sock, delOk) ==
    IF delOk THEN emitGroupsUpdate(sock, GroupUserId, GroupInstanceId)
    ELSE sock

\* await invalidateGroupsCacheAndEmitUpdate(...), then the success response
InvalidateAndRespond(i, delOk) ==
    LET call == groupCalls[i] IN
    /\ call.pc = "invalidate"
    /\ groupsCache' = IF delOk THEN Absent ELSE groupsCache
    /\ socket' = InvalidateEmit(socket, delOk)
    /\ UNCHANGED cacheStamp
    /\ groupCalls' = [ groupCalls EXCEPT ![i] =
          [ GroupRespond(call, OpResponse(call.op))
              EXCEPT !.del = IF delOk THEN "ok" ELSE "failed",
                     !.entryAfterDel = groupsCache',
                     !.notified = Len(socket'.emitted) + Len(socket'.pending)
                                  - Len(socket.emitted) - Len(socket.pending) ] ]

\* the entry's CACHE_TTL runs out
CacheExpire ==
    /\ groupsCache # Absent
    /\ groupsCache' = Absent
    /\ UNCHANGED <<groupCalls, cacheStamp, socket>>

\* the 'connect' handler: pendingEvents is flushed
SocketConnect ==
    /\ ~socket.connected
    /\ socket' = [ connected |-> TRUE,
                   emitted |-> socket.emitted \o socket.pending,
                   pending |-> <<>> ]
    /\ UNCHANGED <<groupCalls, groupsCache, cacheStamp>>

\* the 'disconnect' handler
SocketDisconnect ==
    /\ socket.connected
    /\ socket' = [ socket EXCEPT !.connected = FALSE ]
    /\ UNCHANGED <<groupCalls, groupsCache, cacheStamp>>

NextGroups ==
    \/ \E op \in GroupOps, user \in Identities :
          GroupStart(op, user)
              /\ UNCHANGED <<now, getCall, listCall, storeVars, pipeVars, poolVars,
                           pureVars>>
    \/ \E op \in ControllerOps, user \in Identities :
          ControllerStart(op, user)
              /\ UNCHANGED <<now, getCall, listCall, storeVars, pipeVars, poolVars,
                           pureVars>>
    \/ \E i \in 1..Len(groupCalls), ok \in BOOLEAN :
          ServiceDone(i, ok) /\ UNCHANGED <<now, getCall, listCall, storeVars, pipeVars, poolVars,
                           pureVars>>
    \/ \E i \in 1..Len(groupCalls), ok \in BOOLEAN :
          GetAndValidateInstance(i, ok)
              /\ UNCHANGED <<now, getCall, listCall, storeVars, pipeVars, poolVars,
                           pureVars>>
    \/ \E i \in 1..Len(groupCalls), ok \in BOOLEAN :
          UploadFile(i, ok) /\ UNCHANGED <<now, getCall, listCall, storeVars, pipeVars, poolVars,
                           pureVars>>
    \/ \E i \in 1..Len(groupCalls), ok \in BOOLEAN :
          CacheGet(i, ok) /\ UNCHANGED <<now, getCall, listCall, storeVars, pipeVars, poolVars,
                           pureVars>>
    \/ \E i \in 1..Len(groupCalls), outcome \in UpstreamOutcomes :
          FetchAllGroups(i, outcome)
              /\ UNCHANGED <<now, getCall, listCall, storeVars, pipeVars, poolVars,
                           pureVars>>
    \/ \E i \in 1..Len(groupCalls), ok \in BOOLEAN :
          CacheSetex(i, ok) /\ UNCHANGED <<now, getCall, listCall, storeVars, pipeVars, poolVars,
                           pureVars>>
    \/ \E i \in 1..Len(groupCalls), ok \in BOOLEAN :
          CacheGetAfterLimit(i, ok)
              /\ UNCHANGED <<now, getCall, listCall, storeVars, pipeVars, poolVars,
                           pureVars>>
    \/ \E i \in 1..Len(groupCalls), outcome \in UpstreamOutcomes :
          UpstreamChange(i, outcome)
              /\ UNCHANGED <<now, getCall, listCall, storeVars, pipeVars, poolVars,
                           pureVars>>
    \/ \E i \in 1..Len(groupCalls), ok \in BOOLEAN :
          InvalidateAndRespond(i, ok)
              /\ UNCHANGED <<now, getCall, listCall, storeVars, pipeVars, poolVars,
                           pureVars>>
    \/ CacheExpire /\ UNCHANGED <<now, getCall, listCall, storeVars, pipeVars, poolVars,
                           pureVars>>
    \/ SocketConnect /\ UNCHANGED <<now, getCall, listCall, storeVars, pipeVars, poolVars,
                           pureVars>>
    \/ SocketDisconnect /\ UNCHANGED <<now, getCall, listCall, storeVars, pipeVars, poolVars,
                           pureVars>>

SpecGroups == InitConfig /\ [][NextGroups]_vars

\* the listing requests whose gateway call was rejected with the rate-limit
\* marker and that have been answered
RateLimitedAndAnswered ==
    { i \in 1..Len(groupCalls) :
        /\ groupCalls[i].op = "getAllGroups"
        /\ groupCalls[i].pc = "done"
        /\ groupCalls[i].error # Absent
        /\ \E k \in 1..Len(groupCalls[i].error[1].message) :
              groupCalls[i].error[1].message[k] = RateOverlimit }

\* C18 as stated: after a rate-limit error GET /groups answers with the cached
\* listing whenever the cache entry exists, with an error whenever it does
\* not, and never with a success response carrying an empty listing.
C18_RateLimitServesCache ==
    \A i \in RateLimitedAndAnswered :
        LET call == groupCalls[i] IN
        /\ call.entryAtSecondGet # Absent =>
              call.response[1] = GroupsResponse(call.entryAtSecondGet[1], TRUE)
        /\ call.entryAtSecondGet = Absent =>
              call.response[1].status # "success"
        /\ ~( call.response[1].status = "success"
              /\ call.response[1].groups = Some(<<>>) )

\* C18, amended: after a rate-limit error GET /groups reads the cache entry
\* again; when the read returns an entry the answer is a success response
\* marked cached that carries the stored listing as it is (an empty one
\* included), and when the read returns nothing or fails the answer is the
\* error, never a success response.
C18_RateLimitCacheOrError ==
    \A i \in RateLimitedAndAnswered :
        LET call == groupCalls[i] IN
        IF call.secondGet = "hit"
        THEN /\ call.entryAtSecondGet # Absent
             /\ call.response[1] = GroupsResponse(call.entryAtSecondGet[1], TRUE)
        ELSE /\ call.secondGet \in {"miss", "threw"}
             /\ call.response[1].status # "success"
             /\ call.response[1].statusCode = 500
             /\ call.response[1].groups = Absent

\* a rate-limited listing request answered from the cache entry that another
\* request stored after the first read
C18_Witness ==
    \E i \in RateLimitedAndAnswered :
        /\ groupCalls[i].firstGet = "miss"
        /\ groupCalls[i].secondGet = "hit"
        /\ groupCalls[i].response[1] = GroupsResponse(<<"g1">>, TRUE)

\* the answered requests whose gateway call failed with an error that does
\* not carry the rate-limit marker
OtherErrorAndAnswered ==
    { i \in 1..Len(groupCalls) :
        /\ groupCalls[i].pc = "done"
        /\ groupCalls[i].error # Absent
        /\ \A k \in 1..Len(groupCalls[i].error[1].message) :
              groupCalls[i].error[1].message[k] # RateOverlimit }

\* C19: when the gateway call of a group handler, GET /groups included, fails
\* with an error that is not a rate limit, the handler answers with a failure
\* response and never with a success response.
C19_UpstreamErrorSurfacesFailure ==
    \A i \in OtherErrorAndAnswered :
        /\ groupCalls[i].response[1].status # "success"
        /\ groupCalls[i].response[1].statusCode >= 400

\* what the code does: the mutating handlers answer a gateway error with a
\* 500 that carries the gateway's own error message
MutatingOpSurfacesFailure ==
    \A i \in 1..Len(groupCalls) :
        (groupCalls[i].op \in MutatingOps /\ groupCalls[i].error # Absent) =>
            /\ groupCalls[i].response[1].statusCode = 500
            /\ groupCalls[i].response[1].message = groupCalls[i].error[1].message

\* a listing request whose gateway call failed with HTTP 500 and that was
\* answered with success and an empty listing
C19_Witness ==
    \E i \in OtherErrorAndAnswered :
        /\ groupCalls[i].op = "getAllGroups"
        /\ groupCalls[i].error[1].message = <<"HTTP 500">>
        /\ groupCalls[i].response[1] = GroupsResponse(<<>>, FALSE)

\* the mutating requests that were answered with the success response
SucceededChanges ==
    { i \in 1..Len(groupCalls) :
        /\ groupCalls[i].op \in MutatingOps
        /\ groupCalls[i].pc = "done"
        /\ groupCalls[i].response[1].status = "success" }

\* every event handed to the socket client is a 'groups-updated' event keyed
\* by the user id and the instance id
KeyedByUserAndInstance ==
    \A k \in 1..Len(socket.emitted \o socket.pending) :
        (socket.emitted \o socket.pending)[k] =
            [ event |-> "groups-updated", userId |-> GroupUserId,
              instanceId |-> GroupInstanceId ]

\* C20: every mutating group operation that is answered with success has,
\* before the answer, run the cache invalidation (after which the entry is
\* gone unless the deletion failed) and produced exactly one 'groups-updated'
\* notification keyed by (user id, instance id); an event queued by the
\* socket client for the next connect counts as produced.
C20_InvalidateAndNotify ==
    /\ KeyedByUserAndInstance
    /\ \A i \in SucceededChanges :
          /\ groupCalls[i].del \in {"ok", "failed"}
          /\ groupCalls[i].del = "ok" => groupCalls[i].entryAfterDel = Absent
          /\ groupCalls[i].notified = 1

\* what the code does: the notification is produced exactly when the deletion
\* succeeded, and the answer is the success response either way
NotifiedIffDeleted ==
    /\ KeyedByUserAndInstance
    /\ \A i \in 1..Len(groupCalls) :
          groupCalls[i].del # "none" =>
              /\ i \in SucceededChanges
              /\ groupCalls[i].del = "ok" =>
                    /\ groupCalls[i].entryAfterDel = Absent
                    /\ groupCalls[i].notified = 1
              /\ groupCalls[i].del = "failed" => groupCalls[i].notified = 0

\* a group was left and the request answered with success while the deletion
\* of the cache entry failed: the entry stored by an earlier listing request
\* is still there and no notification was emitted or queued
C20_Witness ==
    \E i \in SucceededChanges :
        /\ groupCalls[i].op = "leaveGroup"
        /\ groupCalls[i].del = "failed"
        /\ groupCalls[i].entryAfterDel = Some(<<"g1">>)
        /\ groupCalls[i].notified = 0
        /\ socket.emitted = <<>> /\ socket.pending = <<>>

\* the requests that carried no user identity
WithoutIdentity == { i \in 1..Len(groupCalls) : groupCalls[i].user = Absent }

\* a request on which no lookup, cache access or gateway call was made
NothingLookedUp(call) ==
    /\ call.instance = "none"
    /\ call.firstGet = "none" /\ call.secondGet = "none"
    /\ call.error = Absent /\ call.del = "none"

\* C21: every handler of the authenticated API (groups, auto-messages,
\* movements) answers a request without user identity with status 401, before
\* any lookup or gateway call.
C21_NoIdentityIs401 ==
    \A i \in WithoutIdentity :
        /\ groupCalls[i].pc = "done"
        /\ groupCalls[i].response[1].statusCode = 401
        /\ NothingLookedUp(groupCalls[i])

\* what the code does: a request without identity is refused before any
\* lookup, with 401 by the auto-message and movement handlers and with the
\* validation error 400 by the group handlers
NoIdentityRefused ==
    \A i \in WithoutIdentity :
        /\ groupCalls[i].pc = "done"
        /\ NothingLookedUp(groupCalls[i])
        /\ groupCalls[i].response[1].statusCode =
              IF groupCalls[i].op \in ControllerOps THEN 401 ELSE 400

\* GET /groups without identity was answered with the validation error 400
C21_Witness ==
    \E i \in WithoutIdentity :
        /\ groupCalls[i].op = "getAllGroups"
        /\ groupCalls[i].response[1].statusCode = 400
        /\ groupCalls[i].response[1].status = "validation_error"

\* ---------------------------------------------------------------------------
\* The PostgreSQL pool (config/databases) and its borrow/release scopes,
\* checked under SpecPool
\* ---------------------------------------------------------------------------

\* new Pool({ max: 20, ... })
PoolMax == 20

\* the operations that borrow a client, with the client.query calls of each
PoolQueries ==
    [ getAutoMessageConfig    |-> 2,
      upsertAutoMessageConfig |-> 1,
      listAutoMessageConfigs  |-> 1,
      deleteAutoMessageConfig |-> 1,
      createMovement          |-> 1,
      listMovements           |-> 2,
      testPostgreSQL          |-> 1 ]

PoolOps == DOMAIN PoolQueries

\* every operation releases in a finally block
ReleasesOnThrowAlways(op) == TRUE

\* the services release in a finally block; testPostgreSQL releases after the
\* query inside its try, so a throwing query skips the release
ReleasesOnThrow(op) == op # "testPostgreSQL"

\* got, releases and threw are history
NewPoolOp(op) ==
    [ op |-> op, pc |-> "connect", queriesLeft |-> PoolQueries[op],
      holds |-> FALSE, got |-> FALSE, releases |-> 0, threw |-> FALSE ]

\* the clients out of the pool
Borrowed ==
    pgOthers + Cardinality({ i \in 1..Len(pgOps) : pgOps[i].holds })

\* connectAllDatabases calls testPostgreSQL once, at start; the services are
\* called by the handlers at any time
PgStart(op) ==
    /\ Len(pgOps) < MaxPoolOps
    /\ op = "testPostgreSQL" =>
          \A i \in 1..Len(pgOps) : pgOps[i].op # "testPostgreSQL"
    /\ pgOps' = Append(pgOps, NewPoolOp(op))
    /\ UNCHANGED pgOthers

\* await pgPool.connect(): a client when the pool has one to give, a
\* rejection (connection timeout, server down) otherwise or at any time
PgConnect(i, ok) ==
    /\ pgOps[i].pc = "connect"
    /\ ok => Borrowed < PoolMax
    /\ pgOps' = [ pgOps EXCEPT ![i] =
          IF ok THEN [ @ EXCEPT !.pc = "query", !.holds = TRUE, !.got = TRUE ]
          ELSE [ @ EXCEPT !.pc = "done", !.threw = TRUE ] ]
    /\ UNCHANGED pgOthers

\* await client.query(...): the next query, or client.release() after the
\* last one; a throwing query ends the operation, through the finally block
\* where there is one
PgQuery(i, ok) ==
    LET o == pgOps[i] IN
    /\ o.pc = "query"
    /\ pgOps' = [ pgOps EXCEPT ![i] =
          IF ok /\ o.queriesLeft > 1
          THEN [ o EXCEPT !.queriesLeft = @ - 1 ]
          ELSE IF ok \/ ReleasesOnThrow(o.op)
          THEN [ o EXCEPT !.pc = "done", !.queriesLeft = IF ok THEN 0 ELSE @,
                          !.holds = FALSE, !.releases = @ + 1,
                          !.threw = ~ok ]
          ELSE [ o EXCEPT !.pc = "done", !.threw = TRUE ] ]
    /\ UNCHANGED pgOthers

\* another request's service borrows a client ...
OtherBorrow ==
    /\ Borrowed < PoolMax
    /\ pgOthers' = pgOthers + 1
    /\ UNCHANGED pgOps

\* ... and releases it in its finally block
OtherRelease ==
    /\ pgOthers > 0
    /\ pgOthers' = pgOthers - 1
    /\ UNCHANGED pgOps

NextPool ==
    \/ \E op \in PoolOps :
          PgStart(op) /\ UNCHANGED <<now, getCall, listCall, groupVars, storeVars, pipeVars,
                           pureVars>>
    \/ \E i \in 1..Len(pgOps), ok \in BOOLEAN :
          PgConnect(i, ok)
              /\ UNCHANGED <<now, getCall, listCall, groupVars, storeVars, pipeVars,
                           pureVars>>
    \/ \E i \in 1..Len(pgOps), ok \in BOOLEAN :
          PgQuery(i, ok)
              /\ UNCHANGED <<now, getCall, listCall, groupVars, storeVars, pipeVars,
                           pureVars>>
    \/ OtherBorrow /\ UNCHANGED <<now, getCall, listCall, groupVars, storeVars, pipeVars,
                           pureVars>>
    \/ OtherRelease /\ UNCHANGED <<now, getCall, listCall, groupVars, storeVars, pipeVars,
                           pureVars>>

SpecPool == InitConfig /\ [][NextPool]_vars

\* C22: every client borrowed by an operation is released exactly once,
\* whether its query succeeds or throws; when no operation is in flight no
\* client is out of the pool; the clients out of the pool never exceed 20.
C22_ReleasedExactlyOnce ==
    /\ \A i \in 1..Len(pgOps) :
          pgOps[i].pc = "done" =>
              /\ ~pgOps[i].holds
              /\ pgOps[i].releases = IF pgOps[i].got THEN 1 ELSE 0
    /\ ( pgOthers = 0 /\ \A i \in 1..Len(pgOps) : pgOps[i].pc = "done" )
          => Borrowed = 0
    /\ Borrowed <= PoolMax

\* what the code does: the services release exactly once on both paths and
\* the pool never gives out more than its maximum
ServicesReleaseOnce ==
    /\ \A i \in 1..Len(pgOps) :
          ( pgOps[i].pc = "done" /\ pgOps[i].op # "testPostgreSQL" ) =>
              /\ ~pgOps[i].holds
              /\ pgOps[i].releases = IF pgOps[i].got THEN 1 ELSE 0
    /\ \A i \in 1..Len(pgOps) : pgOps[i].releases <= 1
    /\ Borrowed <= PoolMax

\* the query of testPostgreSQL threw and its client was never released; with
\* 19 clients held by other requests the pool is exhausted and the connect of
\* createMovement is rejected
C22_Witness ==
    /\ Len(pgOps) = 2
    /\ pgOps[1].op = "testPostgreSQL" /\ pgOps[1].pc = "done"
    /\ pgOps[1].holds /\ pgOps[1].releases = 0
    /\ pgOthers = PoolMax - 1
    /\ pgOps[2].op = "createMovement" /\ pgOps[2].pc = "done"
    /\ ~pgOps[2].got /\ pgOps[2].threw

\* ---------------------------------------------------------------------------
\* The phone functions applied to bounded inputs, checked under SpecPhone
\* ---------------------------------------------------------------------------

\* the digit counts of the inputs, around every length normalizePhone tests
MinDigits == 8
MaxDigits == 15

\* n times the digit 7
Fill(n) == [ i \in 1..n |-> "7" ]

\* what precedes the number: nothing, a plus sign, one or two zeros
PhoneLeads == { <<>>, <<"+">>, <<"0">>, <<"0", "0">> }

\* how the number begins: the country code, area codes of the table (11, 35),
\* a pair outside the table (10) and a single 1
PhoneHeads == { <<"5", "5">>, <<"1", "1">>, <<"3", "5">>, <<"1", "0">>, <<"1">> }

PhoneInputs ==
    { lead \o head \o Fill(n - Len(head)) :
        lead \in PhoneLeads, head \in PhoneHeads, n \in MinDigits..MaxDigits }

\* the defaultDDI arguments: the default and two other country codes
Prefixes == { DefaultDDI, <<"1">>, <<"3", "5", "1">> }

InitPhone ==
    /\ InitStore
    /\ movements = <<>>
    /\ calls = <<>>
    /\ dispatches = <<>>
    /\ templateCase = <<>>
    /\ sockClient = <<>>
    /\ phoneCase \in [ raw : PhoneInputs, ddi : Prefixes, pc : {"input"},
                       normalized : {Absent}, again : {Absent},
                       display : {Absent} ]

\* normalizePhone(raw, ddi)
PhoneNormalize ==
    /\ phoneCase.pc = "input"
    /\ phoneCase' = [ phoneCase EXCEPT
          !.pc = "normalized",
          !.normalized = normalizePhone(phoneCase.raw, phoneCase.ddi) ]

\* normalizePhone applied to its own result, as createMovement does
PhoneRenormalize ==
    /\ phoneCase.pc = "normalized"
    /\ phoneCase.normalized # Absent
    /\ phoneCase.again = Absent
    /\ phoneCase' = [ phoneCase EXCEPT
          !.again = Some(normalizePhone(phoneCase.normalized[1], phoneCase.ddi)) ]

\* formatBrazilianPhone applied to the normalized number
PhoneFormat ==
    /\ phoneCase.pc = "normalized"
    /\ phoneCase.normalized # Absent
    /\ phoneCase.display = Absent
    /\ phoneCase' = [ phoneCase EXCEPT
          !.display = Some(formatBrazilianPhone(phoneCase.normalized[1])) ]

NextPhone ==
    \/ PhoneNormalize
         /\ UNCHANGED <<now, getCall, listCall, groupVars, poolVars, storeVars,
                        pipeVars, templateCase, sockClient>>
    \/ PhoneRenormalize
         /\ UNCHANGED <<now, getCall, listCall, groupVars, poolVars, storeVars,
                        pipeVars, templateCase, sockClient>>
    \/ PhoneFormat
         /\ UNCHANGED <<now, getCall, listCall, groupVars, poolVars, storeVars,
                        pipeVars, templateCase, sockClient>>

SpecPhone == InitPhone /\ [][NextPhone]_vars

\* the reference function of the specification, with the prefix p
ReferenceNormalize(raw, p) ==
    LET digits == SelectSeq(raw, LAMBDA c : c \in Digits)
        n == IF digits # <<>> /\ digits[1] = "0"
             THEN SubSeq(digits, 2, Len(digits)) ELSE digits
    IN  IF Len(n) \in {12, 13} /\ Len(p) <= Len(n) /\ SubSeq(n, 1, Len(p)) = p
        THEN Some(n)
        ELSE IF Len(n) \in {10, 11} THEN Some(p \o n)
        ELSE IF Len(n) \in {12, 13}
             THEN IF SubSeq(n, 1, 2) \in validDDDs THEN Some(p \o n)
                  ELSE Some(n)
        ELSE IF Len(n) > 13 THEN Some(n)
        ELSE Absent

\* C23: normalizePhone(raw, p) equals the reference function for every input
\* and every default prefix p.
C23_MatchesReference ==
    phoneCase.pc = "normalized" =>
        phoneCase.normalized = ReferenceNormalize(phoneCase.raw, phoneCase.ddi)

\* what the code does: it equals the reference for the default prefix 55
MatchesReferenceFor55 ==
    ( phoneCase.pc = "normalized" /\ phoneCase.ddi = DefaultDDI ) =>
        phoneCase.normalized = ReferenceNormalize(phoneCase.raw, phoneCase.ddi)

\* with prefix 1 the 12-digit number 117777777777 already carries the prefix
\* and the reference returns it as it is, while the code, which tests for 55,
\* finds the area code 11 and prepends the prefix
C23_Witness ==
    /\ phoneCase.pc = "normalized"
    /\ phoneCase.ddi = <<"1">>
    /\ phoneCase.raw = <<"1", "1">> \o Fill(10)
    /\ phoneCase.normalized = Some(<<"1", "1", "1">> \o Fill(10))
    /\ ReferenceNormalize(phoneCase.raw, phoneCase.ddi) = Some(phoneCase.raw)

\* the shape (DD)D DDDD-DDDD
IsDisplayShape(d) ==
    /\ Len(d) = 15
    /\ d[1] = "(" /\ d[4] = ")" /\ d[6] = " " /\ d[11] = "-"
    /\ \A i \in {2, 3, 5, 7, 8, 9, 10, 12, 13, 14, 15} : d[i] \in Digits

\* C24 as stated: for every input on which normalizePhone returns a number n,
\* formatBrazilianPhone(n) has the shape (DD)D DDDD-DDDD.
C24_FormatAlwaysShaped ==
    ( phoneCase.ddi = DefaultDDI /\ phoneCase.display # Absent ) =>
        IsDisplayShape(phoneCase.display[1])

\* C24, amended: for a number n returned by normalizePhone with the default
\* prefix, formatBrazilianPhone(n) has the shape (DD)D DDDD-DDDD when n starts
\* with 55 and has 12 or 13 digits, and is n unchanged in every other case.
C24_FormatShapeOrUnchanged ==
    ( phoneCase.ddi = DefaultDDI /\ phoneCase.display # Absent ) =>
        LET n == phoneCase.normalized[1] IN
        IF StartsWith(n, <<"5", "5">>) /\ Len(n) \in {12, 13}
        THEN IsDisplayShape(phoneCase.display[1])
        ELSE phoneCase.display[1] = n

\* a local number of ten digits is normalized to 55 + ten digits and shown
\* with the digit 9 put after the area code
C24_Witness ==
    /\ phoneCase.ddi = DefaultDDI
    /\ phoneCase.raw = <<"1", "1">> \o Fill(8)
    /\ phoneCase.normalized = Some(<<"5", "5", "1", "1">> \o Fill(8))
    /\ phoneCase.display =
          Some(<<"(", "1", "1", ")", "9", " ">> \o Fill(4) \o <<"-">> \o Fill(4))

\* C26: normalizePhone is idempotent: normalizePhone(n) = n for every number
\* n it returns.
C26_Idempotent ==
    phoneCase.again # Absent => phoneCase.again[1] = phoneCase.normalized

\* what the code does: with the default prefix, a result that does not begin
\* with 0 is a fixed point
IdempotentWithoutLeadingZero ==
    ( phoneCase.again # Absent /\ phoneCase.ddi = DefaultDDI
      /\ phoneCase.normalized[1][1] # "0" ) =>
        phoneCase.again[1] = phoneCase.normalized

\* 00 55 7777777777 loses one zero and is returned as 0557777777777; applied
\* again the function removes the second zero
C26_Witness ==
    /\ phoneCase.ddi = DefaultDDI
    /\ phoneCase.raw = <<"0", "0", "5", "5">> \o Fill(10)
    /\ phoneCase.normalized = Some(<<"0", "5", "5">> \o Fill(10))
    /\ phoneCase.again = Some(Some(<<"5", "5">> \o Fill(10)))

\* ---------------------------------------------------------------------------
\* replaceVariables applied to bounded templates, checked under SpecTemplate
\* ---------------------------------------------------------------------------

\* pieces that continue an identifier after a variable's name
IdentRest == { "s", "rio" }

\* templates without any variable, with unknown variables, with unknown
\* variables that begin like a known one, and with known ones
Templates ==
    { <<"Oi", " ", "mundo">>,
      <<"Oi", " ", "$", "idade">>,
      <<"custa", " ", "$", "5">>,
      <<"$", "Name">>,
      <<"Oi", " ", "$", "name", "s">>,
      <<"$", "hora", "rio">>,
      <<"$", "name", " ", "e", " ", "$", "name">>,
      <<"$", "firstName", " ", "$", "groupName">>,
      <<"$", "name", " ", "$", "hora">> }

\* the contact's name: a plain one, none, one spelled like a variable, and
\* one spelled like a replacement pattern
ContactNames ==
    { Some(<<"Maria", " ", "Silva">>), Absent, Some(<<"$", "hora">>),
      Some(<<"$&">>) }

TemplateGroupNames == { Some(<<"Familia">>), Absent }

\* midnight and 12:30
TemplateTimes == { 0, 45000 }

InitTemplate ==
    /\ InitStore
    /\ movements = <<>>
    /\ calls = <<>>
    /\ dispatches = <<>>
    /\ phoneCase = <<>>
    /\ sockClient = <<>>
    /\ templateCase \in
          [ text : Templates,
            contact : [ phone : { <<"5", "5", "1", "1">> \o Fill(9) },
                        name : ContactNames ],
            group : [ id : {GroupJid}, name : TemplateGroupNames,
                      description : {Absent} ],
            t : TemplateTimes, pc : {"input"}, out : {<<>>} ]

\* replaceVariables(text, contact, group)
Render ==
    /\ templateCase.pc = "input"
    /\ templateCase' = [ templateCase EXCEPT
          !.pc = "rendered",
          !.out = replaceVariables(templateCase.text, templateCase.contact,
                                   templateCase.group, templateCase.t) ]
    /\ UNCHANGED <<now, getCall, listCall, groupVars, poolVars, storeVars,
                   pipeVars, phoneCase, sockClient>>

NextTemplate == Render

SpecTemplate == InitTemplate /\ [][NextTemplate]_vars

\* the rendering the specification describes: one pass over the template in
\* which a variable of the table, standing as a whole token, is replaced by
\* its value as it is, and everything else is copied
RECURSIVE ReferenceRender(_, _)
ReferenceRender(text, table) ==
    IF text = <<>> THEN <<>>
    ELSE LET hits == { k \in 1..Len(table) :
                         /\ StartsWith(text, table[k][1])
                         /\ ( Len(text) > Len(table[k][1]) =>
                                text[Len(table[k][1]) + 1] \notin IdentRest ) }
         IN  IF hits = {} THEN <<Head(text)>> \o ReferenceRender(Tail(text), table)
             ELSE LET k == CHOOSE k \in hits : TRUE
                  IN  table[k][2]
                      \o ReferenceRender(
                           SubSeq(text, Len(table[k][1]) + 1, Len(text)), table)

\* C25: replaceVariables leaves every unknown $-token untouched, also one
\* that begins like a known token; a template without known tokens comes out
\* as it went in; matching is case-sensitive and every occurrence of a known
\* token is replaced by its value taken literally.
C25_UnknownTokensUntouched ==
    templateCase # <<>> /\ templateCase.pc = "rendered" =>
        templateCase.out =
            ReferenceRender(templateCase.text,
                            VariableTable(templateCase.contact,
                                          templateCase.group, templateCase.t))

\* what the code does: the renderings agree when no unknown token begins like
\* a known one and the contact's name holds no dollar sign
PlainTokensRendered ==
    ( /\ templateCase # <<>> /\ templateCase.pc = "rendered"
      /\ \A i \in 1..Len(templateCase.text) :
            templateCase.text[i] \notin IdentRest
      /\ templateCase.contact.name \in
            { Some(<<"Maria", " ", "Silva">>), Absent } ) =>
        templateCase.out =
            ReferenceRender(templateCase.text,
                            VariableTable(templateCase.contact,
                                          templateCase.group, templateCase.t))

\* the unknown token $names came out as the contact's name followed by s
C25_Witness ==
    /\ templateCase # <<>> /\ templateCase.pc = "rendered"
    /\ templateCase.text = <<"Oi", " ", "$", "name", "s">>
    /\ templateCase.contact.name = Some(<<"Maria", " ", "Silva">>)
    /\ templateCase.out = <<"Oi", " ", "Maria", " ", "Silva", "s">>

\* ---------------------------------------------------------------------------
\* The dispatchers over a group row that is enabled without a template,
\* checked under SpecFallback
\* ---------------------------------------------------------------------------

\* The global row has both messages; the group row was saved with both flags
\* on, no welcome template and an empty goodbye template, which
\* `data.goodbye_message || null` stores as null.
GroupEnabledNoTemplate ==
    UpsertStatement(GlobalOnly,
        UpsertValues(UpsertData("u1", Some(GroupJid),
            [NoFields EXCEPT !.welcome_enabled = Some(TRUE),
                             !.goodbye_enabled = Some(TRUE),
                             !.goodbye_message = Some(<<>>)])), 2, 0)

\* The same with goodbye switched off in the group row, where the goodbye
\* dispatcher does fall back to the global row.
GroupWelcomeOnlyNoTemplate ==
    UpsertStatement(GlobalOnly,
        UpsertValues(UpsertData("u1", Some(GroupJid),
            [NoFields EXCEPT !.welcome_enabled = Some(TRUE),
                             !.goodbye_enabled = Some(FALSE)])), 2, 0)

InitFallback ==
    /\ configs \in {GroupEnabledNoTemplate, GroupWelcomeOnlyNoTemplate}
    /\ nextId = Cardinality(configs) + 1
    /\ now = 0
    /\ storeOps = 0
    /\ lastUpsert = NoUpsert
    /\ lastDelete = NoDelete
    /\ getCall = IdleGet
    /\ listCall = IdleList
    /\ InitGroups
    /\ InitPure
    /\ movements = <<>>
    /\ calls = <<>>
    /\ dispatches = <<>>

NextFallback == Pipeline(MaxEditCalls)

SpecFallback == InitFallback /\ [][NextFallback]_vars

\* the group row the dispatcher read has its own flag on and no template
EnabledWithoutTemplate(d) ==
    /\ d.groupRows # <<>>
    /\ IF d.kind = "welcome"
       THEN /\ d.groupRows[1].welcome_enabled
            /\ ~TruthyText(d.groupRows[1].welcome_message)
       ELSE /\ d.groupRows[1].goodbye_enabled
            /\ ~TruthyText(d.groupRows[1].goodbye_message)

\* C27: the fallback to the global row depends on the enabled flag only: a
\* dispatcher that read a group row with its flag on and a null or empty
\* template renders and sends nothing, whatever the global row holds.
C27_NoFallbackOnEmptyTemplate ==
    \A d \in 1..Len(dispatches) :
        EnabledWithoutTemplate(dispatches[d]) =>
            /\ dispatches[d].sends = <<>>
            /\ dispatches[d].message = Absent
            /\ dispatches[d].pc \in {"globalQuery", "done"}

\* a goodbye dispatcher ended without a send on the enabled group row
\* without template, while the stored global row has goodbye enabled and a
\* template
C27_Witness ==
    \E d \in 1..Len(dispatches) :
        /\ dispatches[d].kind = "goodbye"
        /\ EnabledWithoutTemplate(dispatches[d])
        /\ dispatches[d].pc = "done"
        /\ dispatches[d].outcome = "noconfig"
        /\ dispatches[d].sends = <<>>
        /\ \E r \in configs :
              /\ r.group_id = Absent /\ r.user_id = "u1"
              /\ r.goodbye_enabled /\ TruthyText(r.goodbye_message)

\* ---------------------------------------------------------------------------
\* The Socket.io client of socket/socketClient.ts, checked under SpecSocket
\* and, with the scheduling of the library, under SpecSocketLive
\* ---------------------------------------------------------------------------

\* const MAX_RECONNECT_ATTEMPTS = 3
MAX_RECONNECT_ATTEMPTS == 3

\* The module state when the module is loaded: socket, isConnected,
\* reconnectAttempts and pendingEvents. `socket` is "null" or the state of
\* the library's socket: "opening" (first attempt under way), "waiting" (a
\* reconnection attempt is scheduled), "open", or "stopped" (the library made
\* its reconnectionAttempts and gave up). `retries` counts the library's
\* reconnection attempts since the last open. `relayUp` is the reachability
\* of the backend. History: `wire` holds the ids of the events given to
\* socket.emit, `queued` the ids ever pushed to pendingEvents, `seq` the
\* number of emitGroupsUpdate calls.
LoadedClient(up) ==
    [ socket |-> "null", isConnected |-> FALSE, reconnectAttempts |-> 0,
      pendingEvents |-> <<>>, retries |-> 0, started |-> FALSE,
      relayUp |-> up, wire |-> <<>>, queued |-> {}, seq |-> 0 ]

InitSocket ==
    /\ InitStore
    /\ movements = <<>>
    /\ calls = <<>>
    /\ dispatches = <<>>
    /\ phoneCase = <<>>
    /\ templateCase = <<>>
    /\ sockClient \in { LoadedClient(up) : up \in BOOLEAN }

\* connectSocket(): nothing when connected or when reconnectAttempts reached
\* the maximum; otherwise io(URL, {...}) makes a socket, or throws
connectSocket(c, throws) ==
    IF c.socket # "null" /\ c.isConnected THEN c
    ELSE IF c.reconnectAttempts >= MAX_RECONNECT_ATTEMPTS THEN c
    ELSE IF throws THEN [ c EXCEPT !.reconnectAttempts = @ + 1 ]
    ELSE [ c EXCEPT !.socket = "opening", !.retries = 0 ]

PendingIds(c) == [ k \in 1..Len(c.pendingEvents) |-> c.pendingEvents[k].id ]

\* the loop of the 'connect' handler with the queue emptied only in name
FlushKeepQueue(c) ==
    [ c EXCEPT !.wire = @ \o PendingIds(c) ]

\* while (pendingEvents.length > 0) socket.emit(pendingEvents.shift())
FlushPending(c) ==
    [ c EXCEPT !.wire = @ \o PendingIds(c), !.pendingEvents = <<>> ]

\* connectSocket() of the server start, before the server listens
ServerStart(throws) ==
    /\ ~sockClient.started
    /\ sockClient' = [ connectSocket(sockClient, throws)
                         EXCEPT !.started = TRUE ]

\* emitGroupsUpdate(userId, instanceId)
EmitGroupsUpdate(throws) ==
    /\ sockClient.started
    /\ sockClient.seq < MaxEvents
    /\ LET c == IF sockClient.socket = "null"
                THEN connectSocket(sockClient, throws)
                ELSE sockClient
           n == sockClient.seq + 1
           pending == [ event |-> "groups-updated",
                        data |-> [ userId |-> GroupUserId,
                                   instanceId |-> GroupInstanceId ],
                        id |-> n ]
       IN  sockClient' =
              IF c.socket # "null" /\ c.isConnected
              THEN [ c EXCEPT !.wire = Append(@, n), !.seq = n ]
              ELSE [ c EXCEPT !.pendingEvents = Append(@, pending),
                              !.queued = @ \cup {n}, !.seq = n ]

\* the library opens the connection and calls the 'connect' handler
OnConnect ==
    /\ sockClient.socket \in {"opening", "waiting"}
    /\ sockClient.relayUp
    /\ sockClient' = FlushPending(
          [ sockClient EXCEPT !.socket = "open", !.retries = 0,
                              !.isConnected = TRUE,
                              !.reconnectAttempts = 0 ])

\* an attempt fails: the 'connect_error' handler counts it, and the library
\* schedules the next of its reconnectionAttempts or gives up
OnConnectError ==
    /\ sockClient.socket \in {"opening", "waiting"}
    /\ ~sockClient.relayUp
    /\ sockClient' =
          [ sockClient EXCEPT
              !.reconnectAttempts = @ + 1,
              !.socket = IF sockClient.retries < MAX_RECONNECT_ATTEMPTS
                         THEN "waiting" ELSE "stopped",
              !.retries = IF sockClient.retries < MAX_RECONNECT_ATTEMPTS
                          THEN @ + 1 ELSE @ ]

\* the connection drops: the 'disconnect' handler, and the library starts
\* to reconnect
OnDisconnect ==
    /\ sockClient.socket = "open"
    /\ ~sockClient.relayUp
    /\ sockClient' = [ sockClient EXCEPT !.socket = "waiting",
                                         !.isConnected = FALSE ]

\* the backend becomes unreachable, or reachable again
RelayChange ==
    sockClient' = [ sockClient EXCEPT !.relayUp = ~@ ]

\* disconnectSocket()
disconnectSocket ==
    /\ sockClient.socket # "null"
    /\ sockClient' = [ sockClient EXCEPT !.socket = "null",
                                         !.isConnected = FALSE ]

socketRest == <<now, getCall, listCall, groupVars, poolVars, storeVars,
                pipeVars, phoneCase, templateCase>>

NextSocketLive ==
    \/ \E throws \in {FALSE} : ServerStart(throws) /\ UNCHANGED socketRest
    \/ \E throws \in {FALSE} : EmitGroupsUpdate(throws) /\ UNCHANGED socketRest
    \/ OnConnect /\ UNCHANGED socketRest
    \/ OnConnectError /\ UNCHANGED socketRest
    \/ OnDisconnect /\ UNCHANGED socketRest
    \/ RelayChange /\ UNCHANGED socketRest

NextSocket ==
    \/ \E throws \in BOOLEAN : ServerStart(throws) /\ UNCHANGED socketRest
    \/ \E throws \in BOOLEAN : EmitGroupsUpdate(throws) /\ UNCHANGED socketRest
    \/ OnConnect /\ UNCHANGED socketRest
    \/ OnConnectError /\ UNCHANGED socketRest
    \/ OnDisconnect /\ UNCHANGED socketRest
    \/ RelayChange /\ UNCHANGED socketRest
    \/ disconnectSocket /\ UNCHANGED socketRest

SpecSocket == InitSocket /\ [][NextSocket]_vars

\* The library fires its timers: an attempt at a reachable relay connects, an
\* attempt at an unreachable one fails. io() does not throw and nothing calls
\* disconnectSocket.
SpecSocketLive ==
    /\ InitSocket
    /\ [][NextSocketLive]_vars
    /\ WF_vars(OnConnect /\ UNCHANGED socketRest)
    /\ WF_vars(OnConnectError /\ UNCHANGED socketRest)

\* every event of an emitGroupsUpdate call is on the wire or in the queue,
\* and no event is in two places
EachEventOnce ==
    LET all == sockClient.wire \o PendingIds(sockClient)
    IN  /\ Len(all) = sockClient.seq
        /\ { all[k] : k \in 1..Len(all) } = 1..sockClient.seq

\* a step in which the 'connect' handler ran puts the queued events on the
\* wire in their order and leaves the queue empty
ConnectFlushesInOrder ==
    (~sockClient.isConnected /\ sockClient'.isConnected) =>
        /\ sockClient'.wire = sockClient.wire \o PendingIds(sockClient)
        /\ sockClient'.pendingEvents = <<>>

\* C28: across emitGroupsUpdate calls and connect / disconnect events every
\* 'groups-updated' event is emitted at most once: it is emitted at once or
\* queued, and the 'connect' handler emits the queued events in their order
\* and leaves the queue empty.
C28_EmittedAtMostOnce ==
    []EachEventOnce /\ [][ConnectFlushesInOrder]_sockClient

\* one event was emitted at once, the connection dropped, two events were
\* queued and the 'connect' handler emitted them in their order
C28_Witness ==
    /\ sockClient # <<>>
    /\ sockClient.isConnected
    /\ sockClient.queued = {2, 3}
    /\ sockClient.wire = <<1, 2, 3>>
    /\ sockClient.pendingEvents = <<>>

\* queued events wait, and the relay can be reached
QueuedAndReachable ==
    sockClient.pendingEvents # <<>> /\ sockClient.relayUp

\* C29: no notification is stranded: while events are queued and the relay
\* is reachable, the queue is eventually emitted (or the relay is lost
\* again), also after MAX_RECONNECT_ATTEMPTS connection errors.
C29_QueueEventuallyFlushed ==
    QueuedAndReachable ~>
        (sockClient.pendingEvents = <<>> \/ ~sockClient.relayUp)

\* What holds instead: the queue is flushed as long as the library has not
\* given up, that is, while a connection attempt is still to come.
FlushedWhileAttemptsRemain ==
    (QueuedAndReachable /\ sockClient.socket \in {"opening", "waiting"}) ~>
        (sockClient.pendingEvents = <<>> \/ ~sockClient.relayUp)

\* once the library has given up, the client never opens a connection again
StoppedForEver ==
    [][sockClient.socket = "stopped" => sockClient'.socket = "stopped"]_sockClient

\* the library gave up after its attempts, the relay is reachable again, and
\* every call of emitGroupsUpdate has only made the queue longer
C29_Witness ==
    /\ sockClient # <<>>
    /\ sockClient.socket = "stopped"
    /\ sockClient.reconnectAttempts > MAX_RECONNECT_ATTEMPTS
    /\ sockClient.relayUp
    /\ Len(sockClient.pendingEvents) = MaxEvents
    /\ sockClient.wire = <<>>

\* ---------------------------------------------------------------------------
\* GET /groups running beside a mutating operation on the same instance,
\* checked under SpecCache: authenticated requests, the gateway and Redis
\* answering
\* ---------------------------------------------------------------------------

RaceOps == { "getAllGroups", "updateGroupSubject" }

cacheRest == <<now, getCall, listCall, storeVars, pipeVars, poolVars, pureVars>>

NextCache ==
    \/ \E op \in RaceOps :
          GroupStartUpTo(op, Some(GroupUserId), MaxRaceCalls)
              /\ UNCHANGED cacheRest
    \/ \E i \in 1..Len(groupCalls) :
          GetAndValidateInstance(i, TRUE) /\ UNCHANGED cacheRest
    \/ \E i \in 1..Len(groupCalls) :
          CacheGet(i, TRUE) /\ UNCHANGED cacheRest
    \/ \E i \in 1..Len(groupCalls),
          outcome \in { o \in UpstreamOutcomes : o.ok } :
          FetchAllGroups(i, outcome) /\ UNCHANGED cacheRest
    \/ \E i \in 1..Len(groupCalls) :
          CacheSetex(i, TRUE) /\ UNCHANGED cacheRest
    \/ \E i \in 1..Len(groupCalls),
          outcome \in { o \in UpstreamOutcomes : o.ok } :
          UpstreamChange(i, outcome) /\ UNCHANGED cacheRest
    \/ \E i \in 1..Len(groupCalls) :
          InvalidateAndRespond(i, TRUE) /\ UNCHANGED cacheRest
    \/ CacheExpire /\ UNCHANGED cacheRest

SpecCache == InitConfig /\ [][NextCache]_vars

\* the listing requests answered from the cache
ServedFromCache ==
    { i \in 1..Len(groupCalls) :
        /\ groupCalls[i].op = "getAllGroups"
        /\ groupCalls[i].pc = "done"
        /\ groupCalls[i].firstGet = "hit" }

\* C30: once a mutating operation has deleted the cache entry and answered,
\* no GET /groups that arrives afterwards is answered with a cached
\* listing that was fetched from the gateway before that change.
C30_NoStaleListingAfterInvalidate ==
    \A i \in ServedFromCache :
        groupCalls[i].served >= groupCalls[i].mustSee

\* What holds instead: a cached listing that is older than an answered
\* change was written by a request that had fetched before the change and
\* wrote its entry after the delete; without such a late write the entry
\* served is never older than the changes answered.
StaleOnlyByLateWrite ==
    \A i \in ServedFromCache :
        groupCalls[i].served < groupCalls[i].mustSee =>
            \E j \in 1..Len(groupCalls) :
                /\ j # i
                /\ groupCalls[j].op = "getAllGroups"
                /\ groupCalls[j].pc = "done"
                /\ groupCalls[j].firstGet = "miss"
                /\ groupCalls[j].fetchedAt = groupCalls[i].served
                /\ groupCalls[j].fetchedAt < groupCalls[i].mustSee

\* a listing was fetched, then a change was carried out, deleted the entry
\* and was answered, then the listing was cached, and a third request was
\* answered with it
C30_Witness ==
    \E i \in ServedFromCache, j, m \in 1..Len(groupCalls) :
        /\ groupCalls[m].op \in MutatingOps
        /\ groupCalls[m].pc = "done"
        /\ groupCalls[m].del = "ok"
        /\ groupCalls[m].version = 1
        /\ groupCalls[j].op = "getAllGroups"
        /\ groupCalls[j].pc = "done"
        /\ groupCalls[j].fetchedAt = 0
        /\ groupCalls[i].mustSee = 1
        /\ groupCalls[i].served = 0

============================================================================
